---------------------------- MODULE Spec2Model ----------------------------
(***************************************************************************)
(* A model of the typed column store of the etl crate (DataStore), of its  *)
(* ingestion loop (extract_data) and of the 5x5 type conversion matrix     *)
(* (convert_field / VecConvert) as used by the Convert transform.          *)
(*                                                                         *)
(* Values.  A String is a sequence of one-character strings.  A u64 is a   *)
(* natural number held as a little-endian sequence of 16-bit limbs without *)
(* a leading zero limb (zero is <<>>), so that the 64-bit width, decimal   *)
(* formatting and checked decimal parsing are computed and not assumed.    *)
(* An i64 is [neg, mag] with mag such a natural.  An f64 is [cls, neg,     *)
(* mag, half]: cls is "fin", "inf" or "nan"; a finite value is             *)
(* (-1)^neg * (mag + half/2).  Every f64 the model handles is a multiple   *)
(* of 1/2, which binary floating point holds exactly.                      *)
(* An Option is a set with at most one element: None is {}, Some(x) is {x}.*)
(***************************************************************************)
EXTENDS Integers, Sequences, FiniteSets, TLC

\* ds:  the data store the calls act on
\* log: the calls made so far, each with its arguments, the store it found
\*      and its result
\* eng: the state of the transform engine while it resolves a transform list
VARIABLES ds, log, eng

vars == <<ds, log, eng>>

\* no resolution is under way
NoEngine == [status |-> "none"]

None == {}
Some(x) == {x}

----------------------------------------------------------------------------
(* Natural numbers of any size, as 16-bit limbs *)

LimbBase == 2^16

RECURSIVE NatNorm(_)
NatNorm(n) ==
    IF n = <<>> THEN <<>>
    ELSE IF n[Len(n)] = 0 THEN NatNorm(SubSeq(n, 1, Len(n) - 1))
    ELSE n

\* n * m + c, for 1 <= m <= 10 and 0 <= c < LimbBase
RECURSIVE NatMulAdd(_, _, _)
NatMulAdd(n, m, c) ==
    IF n = <<>> THEN (IF c = 0 THEN <<>> ELSE <<c>>)
    ELSE LET t == Head(n) * m + c
         IN  <<t % LimbBase>> \o NatMulAdd(Tail(n), m, t \div LimbBase)

\* quotient (not normalised) and remainder of n by a small divisor d
RECURSIVE NatQuotRem(_, _)
NatQuotRem(n, d) ==
    IF n = <<>> THEN [q |-> <<>>, r |-> 0]
    ELSE LET hi  == NatQuotRem(Tail(n), d)
             cur == hi.r * LimbBase + Head(n)
         IN  [q |-> <<cur \div d>> \o hi.q, r |-> cur % d]

\* n + c, for 0 <= c < LimbBase
RECURSIVE NatAddSmall(_, _)
NatAddSmall(n, c) ==
    IF c = 0 THEN n
    ELSE IF n = <<>> THEN <<c>>
    ELSE LET t == Head(n) + c
         IN  <<t % LimbBase>> \o NatAddSmall(Tail(n), t \div LimbBase)

\* 2^e as a natural
NatPow2(e) == [i \in 1..((e \div 16) + 1) |-> IF i = (e \div 16) + 1 THEN 2^(e % 16) ELSE 0]

RECURSIVE NatLessFrom(_, _, _)
NatLessFrom(a, b, i) ==
    IF i = 0 THEN FALSE
    ELSE IF a[i] # b[i] THEN a[i] < b[i]
    ELSE NatLessFrom(a, b, i - 1)

NatLess(a, b) ==
    IF Len(a) # Len(b) THEN Len(a) < Len(b) ELSE NatLessFrom(a, b, Len(a))

\* number of significant bits of a limb, and of a natural
RECURSIVE LimbBits(_)
LimbBits(x) == IF x = 0 THEN 0 ELSE 1 + LimbBits(x \div 2)

NatBits(n) == IF n = <<>> THEN 0 ELSE 16 * (Len(n) - 1) + LimbBits(n[Len(n)])

\* the widths of the integer types
U64Bits == 64
I64Bits == 63

FitsU64(n) == NatBits(n) <= U64Bits
FitsI64Pos(n) == NatBits(n) <= I64Bits
\* magnitudes of negative i64 values reach 2^63 itself
FitsI64Neg(n) == NatBits(n) <= I64Bits \/ n = NatPow2(I64Bits)

U64Max == [i \in 1..4 |-> LimbBase - 1]
I64MaxMag == [i \in 1..4 |-> IF i = 4 THEN (LimbBase \div 2) - 1 ELSE LimbBase - 1]

----------------------------------------------------------------------------
(* Strings, decimal digits *)

Digits == <<"0", "1", "2", "3", "4", "5", "6", "7", "8", "9">>

IsDigit(c) == \E i \in 1..10 : Digits[i] = c
DigitVal(c) == (CHOOSE i \in 1..10 : Digits[i] = c) - 1
DigitChar(k) == Digits[k + 1]

\* the longest prefix of decimal digits of s
RECURSIVE DigitPrefixLen(_)
DigitPrefixLen(s) ==
    IF s = <<>> \/ ~IsDigit(Head(s)) THEN 0 ELSE 1 + DigitPrefixLen(Tail(s))

AllDigits(s) == DigitPrefixLen(s) = Len(s)

----------------------------------------------------------------------------
(* format!("{}", x) *)

RECURSIVE NatDigits(_)
NatDigits(n) ==
    IF n = <<>> THEN <<>>
    ELSE LET qr == NatQuotRem(n, 10)
         IN  NatDigits(NatNorm(qr.q)) \o <<DigitChar(qr.r)>>

FmtNat(n) == IF n = <<>> THEN <<"0">> ELSE NatDigits(n)

FmtU64(u) == FmtNat(u)

FmtI64(i) == IF i.neg THEN <<"-">> \o FmtNat(i.mag) ELSE FmtNat(i.mag)

FmtBool(b) == IF b THEN <<"t", "r", "u", "e">> ELSE <<"f", "a", "l", "s", "e">>

\* Display of an f64 prints the shortest decimal that reads back as the value;
\* for the multiples of 1/2 below 2^53 that is the exact decimal.
FmtF64(f) ==
    IF f.cls = "nan" THEN <<"N", "a", "N">>
    ELSE IF f.cls = "inf" THEN (IF f.neg THEN <<"-">> ELSE <<>>) \o <<"i", "n", "f">>
    ELSE (IF f.neg THEN <<"-">> ELSE <<>>) \o FmtNat(f.mag)
            \o (IF f.half THEN <<".", "5">> ELSE <<>>)

----------------------------------------------------------------------------
(* str::parse::<T>() : an Option, None for the Err result *)

\* the checked accumulation of from_str_radix: result * 10 + digit at each
\* digit, None as soon as a step leaves the type's range (kind "u64", "ipos"
\* for a non-negative i64, "ineg" for a negative one)
Fits(kind, n) ==
    CASE kind = "u64"  -> FitsU64(n)
      [] kind = "ipos" -> FitsI64Pos(n)
      [] kind = "ineg" -> FitsI64Neg(n)
      [] OTHER         -> TRUE

RECURSIVE ParseDigits(_, _, _)
ParseDigits(s, acc, kind) ==
    IF s = <<>> THEN Some(acc)
    ELSE IF ~IsDigit(Head(s)) THEN None
    ELSE LET next == NatMulAdd(acc, 10, DigitVal(Head(s)))
         IN  IF Fits(kind, next) THEN ParseDigits(Tail(s), next, kind) ELSE None

ParseU64(s) ==
    IF s = <<>> THEN None
    ELSE LET digits == IF Head(s) = "+" THEN Tail(s) ELSE s
         IN  IF digits = <<>> THEN None ELSE ParseDigits(digits, <<>>, "u64")

MkI64(neg, mag) == [neg |-> neg /\ mag # <<>>, mag |-> mag]

ParseI64(s) ==
    IF s = <<>> THEN None
    ELSE LET isNeg  == Head(s) = "-"
             digits == IF Head(s) \in {"+", "-"} THEN Tail(s) ELSE s
         IN  IF digits = <<>> THEN None
             ELSE { MkI64(isNeg, m) :
                      m \in ParseDigits(digits, <<>>, IF isNeg THEN "ineg" ELSE "ipos") }

ParseBool(s) ==
    IF s = FmtBool(TRUE) THEN Some(TRUE)
    ELSE IF s = FmtBool(FALSE) THEN Some(FALSE)
    ELSE None

\* round a natural to the 53 significant bits of an f64, ties to even
F64MantBits == 53

RoundToF64(n) ==
    IF NatBits(n) <= F64MantBits THEN n
    ELSE LET s    == NatBits(n) - F64MantBits
             low  == n[1] % (2^s)
             odd  == (n[1] \div (2^s)) % 2 = 1
             up   == low > 2^(s - 1) \/ (low = 2^(s - 1) /\ odd)
             base == [n EXCEPT ![1] = n[1] - low]
         IN  IF up THEN NatAddSmall(base, 2^s) ELSE base

MkF64(neg, mag, half) == [cls |-> "fin", neg |-> neg, mag |-> mag, half |-> half]
F64NaN == [cls |-> "nan", neg |-> FALSE, mag |-> <<>>, half |-> FALSE]
F64Inf(neg) == [cls |-> "inf", neg |-> neg, mag |-> <<>>, half |-> FALSE]

RECURSIVE StripZeros(_)
StripZeros(s) ==
    IF s # <<>> /\ s[Len(s)] = "0" THEN StripZeros(SubSeq(s, 1, Len(s) - 1)) ELSE s

\* The decimal grammar of f64::from_str: [sign] digits [. digits], at least
\* one digit.  The strings of the model hold no exponent, "inf" or "NaN",
\* and their fraction is empty, zero or one half.
ParseF64(s) ==
    IF s = <<>> THEN None
    ELSE LET isNeg == Head(s) = "-"
             body  == IF Head(s) \in {"+", "-"} THEN Tail(s) ELSE s
             k     == DigitPrefixLen(body)
             int   == SubSeq(body, 1, k)
             rest  == SubSeq(body, k + 1, Len(body))
             frac  == IF rest = <<>> THEN <<>> ELSE Tail(rest)
             mag   == CHOOSE m \in ParseDigits(int, <<>>, "nat") : TRUE
             half  == StripZeros(frac) = <<"5">>
         IN  IF body = <<>> THEN None
             ELSE IF rest # <<>> /\ (Head(rest) # "." \/ ~AllDigits(frac)) THEN None
             ELSE IF int = <<>> /\ frac = <<>> THEN None
             ELSE Some(MkF64(isNeg, RoundToF64(mag), half /\ NatBits(mag) < F64MantBits))

----------------------------------------------------------------------------
(* DataStore *)

FieldTypes == {"Unsigned", "Signed", "Text", "Boolean", "Float"}

\* HashMap<String, V> is a function on the set of its keys
EmptyMap == <<>>

MapInsert(h, k, v) == [x \in (DOMAIN h) \cup {k} |-> IF x = k THEN v ELSE h[x]]

FieldInfo(index, name, ty) == [index |-> index, name |-> name, ty |-> ty]

empty ==
    [fields    |-> <<>>,
     field_map |-> EmptyMap,
     unsigned  |-> EmptyMap,
     signed    |-> EmptyMap,
     text      |-> EmptyMap,
     boolean   |-> EmptyMap,
     float     |-> EmptyMap]

\* the storage of one field type
Bucket(s, ty) ==
    CASE ty = "Unsigned" -> s.unsigned
      [] ty = "Signed"   -> s.signed
      [] ty = "Text"     -> s.text
      [] ty = "Boolean"  -> s.boolean
      [] ty = "Float"    -> s.float

WithBucket(s, ty, h) ==
    CASE ty = "Unsigned" -> [s EXCEPT !.unsigned = h]
      [] ty = "Signed"   -> [s EXCEPT !.signed = h]
      [] ty = "Text"     -> [s EXCEPT !.text = h]
      [] ty = "Boolean"  -> [s EXCEPT !.boolean = h]
      [] ty = "Float"    -> [s EXCEPT !.float = h]

max_len(h) ==
    IF DOMAIN h = {} THEN 0
    ELSE CHOOSE m \in {Len(h[k]) : k \in DOMAIN h} : \A k \in DOMAIN h : Len(h[k]) <= m

\* a variant that leaves zero-length columns out of the comparison
is_hm_homogeneous_skipping_empty(h) ==
    LET lens == {Len(h[k]) : k \in DOMAIN h} \ {0}
    IN  IF lens = {} THEN Some(0)
        ELSE IF Cardinality(lens) = 1 THEN lens
        ELSE None

\* The loop compares every length with the first one met, so the answer does
\* not depend on the map's iteration order.
is_hm_homogeneous(h) ==
    IF DOMAIN h = {} THEN Some(0)
    ELSE LET target_len == Len(h[CHOOSE k \in DOMAIN h : TRUE])
         IN  IF \A k \in DOMAIN h : Len(h[k]) = target_len THEN Some(target_len) ELSE None

is_hm_homogeneous_with(h, value) ==
    UNION { IF x = 0 /\ value # 0 THEN Some(value)
            ELSE IF (value = 0 /\ x # 0) \/ x = value THEN Some(x)
            ELSE None : x \in is_hm_homogeneous(h) }

insert_value(h, k, v) ==
    IF k \in DOMAIN h THEN [h EXCEPT ![k] = Append(@, v)] ELSE MapInsert(h, k, <<v>>)

add_field(s, field_name, field_type) ==
    IF field_name \notin DOMAIN s.field_map
    THEN LET index == Len(s.fields)
         IN  [s EXCEPT !.fields = Append(@, FieldInfo(index, field_name, field_type)),
                       !.field_map = MapInsert(@, field_name, index)]
    ELSE s

\* insert_unsigned, insert_signed, insert_text, insert_boolean, insert_float
insert_typed(s, field_name, ty, value) ==
    LET s1 == add_field(s, field_name, ty)
    IN  WithBucket(s1, ty, insert_value(Bucket(s1, ty), field_name, value))

\* value_str.parse() at the type of the field (Text takes the string as it is)
ParseAs(ty, value_str) ==
    CASE ty = "Unsigned" -> ParseU64(value_str)
      [] ty = "Signed"   -> ParseI64(value_str)
      [] ty = "Text"     -> Some(value_str)
      [] ty = "Boolean"  -> ParseBool(value_str)
      [] ty = "Float"    -> ParseF64(value_str)

\* A call's result: ok, the kind of error, and the store the call leaves.
Ok(s) == [ok |-> TRUE, err |-> "", store |-> s]
Err(e, s) == [ok |-> FALSE, err |-> e, store |-> s]

\* a variant that registers the field before it parses the value
insert_descriptor_first(s, field_name, field_type, value_str) ==
    LET parsed == ParseAs(field_type, value_str)
    IN  IF parsed = None THEN Err("ParseError", add_field(s, field_name, field_type))
        ELSE Ok(insert_typed(s, field_name, field_type, CHOOSE v \in parsed : TRUE))

\* the parse is an argument of insert_<type>: `?` returns before the call
insert(s, field_name, field_type, value_str) ==
    LET parsed == ParseAs(field_type, value_str)
    IN  IF parsed = None THEN Err("ParseError", s)
        ELSE Ok(insert_typed(s, field_name, field_type, CHOOSE v \in parsed : TRUE))

\* merge_unsigned, merge_signed, merge_text, merge_boolean, merge_float:
\* HashMap::insert stores v and returns the value it replaced
merge_column(s, field_name, ty, v) ==
    LET s1  == add_field(s, field_name, ty)
        old == IF field_name \in DOMAIN Bucket(s1, ty) THEN Some(Bucket(s1, ty)[field_name])
               ELSE None
        s2  == WithBucket(s1, ty, MapInsert(Bucket(s1, ty), field_name, v))
    IN  IF old # None THEN Err("DuplicateField", s2) ELSE Ok(s2)

RECURSIVE merge_fields(_, _, _, _)
merge_fields(s, field_names, field_type, src) ==
    IF field_names = <<>> THEN Ok(s)
    ELSE LET field_name == Head(field_names)
         IN  IF field_name \notin DOMAIN Bucket(src, field_type)
             THEN Err("MissingField", s)
             ELSE LET r == merge_column(s, field_name, field_type,
                                        Bucket(src, field_type)[field_name])
                  IN  IF r.ok THEN merge_fields(r.store, Tail(field_names), field_type, src)
                      ELSE r

merge_field(s, field_name, field_type, src) ==
    merge_fields(s, <<field_name>>, field_type, src)

RECURSIVE merge_from(_, _, _)
merge_from(s, other, i) ==
    IF i > Len(other.fields) THEN Ok(s)
    ELSE LET r == merge_field(s, other.fields[i].name, other.fields[i].ty, other)
         IN  IF r.ok THEN merge_from(r.store, other, i + 1) ELSE r

merge(s, other) == merge_from(s, other, 1)

get_fieldinfo(s, field_name) ==
    IF field_name \in DOMAIN s.field_map /\ s.field_map[field_name] < Len(s.fields)
    THEN Some(s.fields[s.field_map[field_name] + 1])
    ELSE None

is_homogeneous(s) ==
    LET a == is_hm_homogeneous(s.unsigned)
        b == UNION { is_hm_homogeneous_with(s.signed, x) : x \in a }
        c == UNION { is_hm_homogeneous_with(s.text, x) : x \in b }
        d == UNION { is_hm_homogeneous_with(s.boolean, x) : x \in c }
        e == UNION { is_hm_homogeneous_with(s.float, x) : x \in d }
    IN  e # None

Max(a, b) == IF a >= b THEN a ELSE b

nrows(s) ==
    Max(Max(Max(Max(max_len(s.unsigned), max_len(s.signed)), max_len(s.text)),
            max_len(s.boolean)), max_len(s.float))

----------------------------------------------------------------------------
(* The store under insert and merge calls *)

\* bounds of the model
MaxOps == 2
MaxColLen == 2

Names == {"a", "b"}

\* raw cells: for each type some parse and some do not
RawStrs ==
    { <<"7">>, <<"-", "3">>, <<"t", "r", "u", "e">>, <<"x">> }

\* the i-th value of the columns handed to merge_column
SampleVal(ty, i) ==
    CASE ty = "Unsigned" -> <<i>>
      [] ty = "Signed"   -> MkI64(TRUE, <<i>>)
      [] ty = "Text"     -> <<"v", DigitChar(i)>>
      [] ty = "Boolean"  -> i % 2 = 1
      [] ty = "Float"    -> MkF64(FALSE, <<i>>, TRUE)

SampleCol(ty, len) == [i \in 1..len |-> SampleVal(ty, i)]

\* the stores handed to merge: one or two columns merged into an empty store
OtherTypes == {"Unsigned", "Text"}

OtherStores ==
    LET one(n, t, l) == merge_column(empty, n, t, SampleCol(t, l)).store
    IN  { one(n, t, 1) : n \in Names, t \in OtherTypes }
        \cup { merge_column(one(p[1], t1, 1), p[2], t2, SampleCol(t2, MaxColLen)).store :
                 p \in {q \in Names \X Names : q[1] # q[2]},
                 t1 \in OtherTypes, t2 \in OtherTypes }

Call(op, name, ty, arg, r) ==
    [op |-> op, name |-> name, ty |-> ty, arg |-> arg, before |-> ds,
     ok |-> r.ok, err |-> r.err]

Last == log[Len(log)]

Init ==
    /\ ds = empty
    /\ log = <<>>
    /\ eng = NoEngine

Insert(name, ty, value_str) ==
    /\ Len(log) < MaxOps
    /\ LET r == insert(ds, name, ty, value_str)
       IN  /\ ds' = r.store
           /\ log' = Append(log, Call("insert", name, ty, value_str, r))
    /\ UNCHANGED eng

MergeColumn(name, ty, v) ==
    /\ Len(log) < MaxOps
    /\ LET r == merge_column(ds, name, ty, v)
       IN  /\ ds' = r.store
           /\ log' = Append(log, Call("merge_column", name, ty, v, r))
    /\ UNCHANGED eng

Merge(other) ==
    /\ Len(log) < MaxOps
    /\ LET r == merge(ds, other)
       IN  /\ ds' = r.store
           /\ log' = Append(log, Call("merge", "", "", other, r))
    /\ UNCHANGED eng

Next ==
    \/ \E name \in Names, ty \in FieldTypes, value_str \in RawStrs :
          Insert(name, ty, value_str)
    \/ \E name \in Names, ty \in FieldTypes, len \in 0..MaxColLen :
          MergeColumn(name, ty, SampleCol(ty, len))
    \/ \E other \in OtherStores : Merge(other)

Spec == Init /\ [][Next]_vars

----------------------------------------------------------------------------
(* Ingestion: parse_headers and extract_data *)

\* bound of the model
MaxRows == 2

\* header rows: one with two columns, one that repeats a name
Headers == { <<"a", "b">>, <<"a", "b", "a">> }

IngestTypes == {"Unsigned", "Text", "Float"}

\* a configuration gives the type of each field it uses
Configs == UNION { [S -> IngestTypes] : S \in SUBSET Names }

Cells == { <<"7">>, <<"x">> }

\* the records of a file: as wide as the header row, or one cell short
RowsOf(headers) ==
    LET row == UNION { [1..w -> Cells] : w \in {Len(headers) - 1, Len(headers)} }
    IN  UNION { [1..n -> row] : n \in 0..MaxRows }

RECURSIVE parse_headers_from(_, _, _)
parse_headers_from(headers, config, i) ==
    IF i > Len(headers) THEN <<>>
    ELSE (IF headers[i] \in DOMAIN config
          THEN <<FieldInfo(i - 1, headers[i], config[headers[i]])>>
          ELSE <<>>)
         \o parse_headers_from(headers, config, i + 1)

parse_headers(headers, config) == parse_headers_from(headers, config, 1)

\* the inner loop of extract_data over the used fields of one row
RECURSIVE insert_row(_, _, _, _)
insert_row(data, row, used_fields, i) ==
    IF i > Len(used_fields) THEN Ok(data)
    ELSE LET finfo == used_fields[i]
         IN  IF finfo.index >= Len(row) THEN Err("IndexOutOfBounds", data)
             ELSE LET r == insert(data, finfo.name, finfo.ty, row[finfo.index + 1])
                  IN  IF r.ok THEN insert_row(r.store, row, used_fields, i + 1) ELSE r

\* a variant without the check of the field lengths after each row
RECURSIVE extract_rows_unchecked(_, _, _)
extract_rows_unchecked(data, rows, used_fields) ==
    IF rows = <<>> THEN Ok(data)
    ELSE LET r == insert_row(data, Head(rows), used_fields, 1)
         IN  IF ~r.ok THEN r
             ELSE extract_rows_unchecked(r.store, Tail(rows), used_fields)

RECURSIVE extract_rows(_, _, _)
extract_rows(data, rows, used_fields) ==
    IF rows = <<>> THEN Ok(data)
    ELSE LET r == insert_row(data, Head(rows), used_fields, 1)
         IN  IF ~r.ok THEN r
             ELSE IF ~is_homogeneous(r.store) THEN Err("InconsistentLengths", r.store)
             ELSE extract_rows(r.store, Tail(rows), used_fields)

extract_data_unchecked(rows, used_fields) == extract_rows_unchecked(empty, rows, used_fields)

extract_data(rows, used_fields) == extract_rows(empty, rows, used_fields)

\* One load: the headers are bound, the rows extracted.  On an error the
\* function returns no store.
ExtractData(headers, config, rows) ==
    /\ log = <<>>
    /\ LET r == extract_data(rows, parse_headers(headers, config))
       IN  /\ ds' = IF r.ok THEN r.store ELSE ds
           /\ log' = Append(log, Call("extract_data", "", "",
                                      [headers |-> headers, config |-> config, rows |-> rows], r))
    /\ UNCHANGED eng

\* a behaviour holds one load
NextIngest ==
    /\ log = <<>>
    /\ \E headers \in Headers, config \in Configs :
          \E rows \in RowsOf(headers) : ExtractData(headers, config, rows)

SpecIngest == Init /\ [][NextIngest]_vars

----------------------------------------------------------------------------
(* Type conversion: VecConvert, convert_field, ConvertConfig::transform_fields *)

\* Each conversion of one value gives the set of results the build can
\* produce, each an Option: None is the None that the code unwraps.

OneU64 == <<1>>

\* Unsigned -> *
unsigned_to_unsigned(u) == { Some(u) }
unsigned_to_signed(u) == { IF FitsI64Pos(u) THEN Some(MkI64(FALSE, u)) ELSE None }
unsigned_to_text(u) == { Some(FmtU64(u)) }
unsigned_to_boolean(u) == { Some(u # <<>>) }
unsigned_to_float(u) == { Some(MkF64(FALSE, RoundToF64(u), FALSE)) }

\* Signed -> *
signed_to_unsigned(i) == { IF i.neg THEN None ELSE Some(i.mag) }
signed_to_signed(i) == { Some(i) }
signed_to_text(i) == { Some(FmtI64(i)) }
signed_to_boolean(i) == { Some(i.mag # <<>>) }
signed_to_float(i) == { Some(MkF64(i.neg, RoundToF64(i.mag), FALSE)) }

\* String -> * : a variant of the first that parses at the signed type
text_to_unsigned_via_signed(s) == { {i.mag : i \in {j \in ParseI64(s) : ~j.neg}} }

text_to_unsigned(s) == { ParseU64(s) }
text_to_signed(s) == { ParseI64(s) }
text_to_text(s) == { Some(s) }
text_to_boolean(s) == { ParseBool(s) }
text_to_float(s) == { ParseF64(s) }

\* Bool -> *
boolean_to_unsigned(b) == { Some(IF b THEN OneU64 ELSE <<>>) }
boolean_to_signed(b) == { Some(MkI64(FALSE, IF b THEN OneU64 ELSE <<>>)) }
boolean_to_text(b) == { Some(FmtBool(b)) }
boolean_to_boolean(b) == { Some(b) }
boolean_to_float(b) == { Some(MkF64(FALSE, IF b THEN OneU64 ELSE <<>>, FALSE)) }

\* Float -> * : to_u64 and to_i64 truncate a value in range.  Out of range
\* (NaN and the infinities too) the num crate of the time casts with `as`,
\* whose result the compiler leaves undefined or saturates, and later ones
\* return None: both are outcomes.
F64InU64Range(f) == f.cls = "fin" /\ (IF f.neg THEN f.mag = <<>> ELSE FitsU64(f.mag))
F64InI64Range(f) == f.cls = "fin" /\ (IF f.neg THEN FitsI64Neg(f.mag) ELSE FitsI64Pos(f.mag))

F64SatU64(f) == IF f.cls = "nan" \/ f.neg THEN <<>> ELSE U64Max
F64SatI64(f) ==
    IF f.cls = "nan" THEN MkI64(FALSE, <<>>)
    ELSE IF f.neg THEN MkI64(TRUE, NatPow2(I64Bits))
    ELSE MkI64(FALSE, I64MaxMag)

float_to_unsigned(f) ==
    IF F64InU64Range(f) THEN { Some(f.mag) } ELSE { None, Some(F64SatU64(f)) }
float_to_signed(f) ==
    IF F64InI64Range(f) THEN { Some(MkI64(f.neg, f.mag)) } ELSE { None, Some(F64SatI64(f)) }
float_to_text(f) == { Some(FmtF64(f)) }
float_to_boolean(f) == { Some(~(f.cls = "fin" /\ f.mag = <<>> /\ ~f.half)) }
float_to_float(f) == { Some(f) }

\* gen_convert_type and the impl of VecConvert it selects, on one value
convert_value(source_type, target_type, x) ==
    CASE source_type = "Unsigned" ->
           (CASE target_type = "Unsigned" -> unsigned_to_unsigned(x)
              [] target_type = "Signed"   -> unsigned_to_signed(x)
              [] target_type = "Text"     -> unsigned_to_text(x)
              [] target_type = "Boolean"  -> unsigned_to_boolean(x)
              [] target_type = "Float"    -> unsigned_to_float(x))
      [] source_type = "Signed" ->
           (CASE target_type = "Unsigned" -> signed_to_unsigned(x)
              [] target_type = "Signed"   -> signed_to_signed(x)
              [] target_type = "Text"     -> signed_to_text(x)
              [] target_type = "Boolean"  -> signed_to_boolean(x)
              [] target_type = "Float"    -> signed_to_float(x))
      [] source_type = "Text" ->
           (CASE target_type = "Unsigned" -> text_to_unsigned(x)
              [] target_type = "Signed"   -> text_to_signed(x)
              [] target_type = "Text"     -> text_to_text(x)
              [] target_type = "Boolean"  -> text_to_boolean(x)
              [] target_type = "Float"    -> text_to_float(x))
      [] source_type = "Boolean" ->
           (CASE target_type = "Unsigned" -> boolean_to_unsigned(x)
              [] target_type = "Signed"   -> boolean_to_signed(x)
              [] target_type = "Text"     -> boolean_to_text(x)
              [] target_type = "Boolean"  -> boolean_to_boolean(x)
              [] target_type = "Float"    -> boolean_to_float(x))
      [] source_type = "Float" ->
           (CASE target_type = "Unsigned" -> float_to_unsigned(x)
              [] target_type = "Signed"   -> float_to_signed(x)
              [] target_type = "Text"     -> float_to_text(x)
              [] target_type = "Boolean"  -> float_to_boolean(x)
              [] target_type = "Float"    -> float_to_float(x))

\* a panic unwinds the call: nothing is returned
Panic == [ok |-> FALSE, err |-> "panic", store |-> empty]

\* self.iter().map(..unwrap()..).collect(): the columns the call can return,
\* and a panic when an unwrap can meet a None
vec_convert(v, source_type, target_type) ==
    LET opts == UNION { convert_value(source_type, target_type, v[i]) : i \in 1..Len(v) }
        runs == { f \in [1..Len(v) -> opts] :
                    \A i \in 1..Len(v) : f[i] \in convert_value(source_type, target_type, v[i]) }
    IN  { IF \E i \in 1..Len(v) : f[i] = None THEN [panic |-> TRUE, vals |-> <<>>]
          ELSE [panic |-> FALSE, vals |-> [i \in 1..Len(v) |-> CHOOSE y \in f[i] : TRUE]] :
            f \in runs }

convert_field(source_field, source_type, target_field, target_type, orig_ds) ==
    IF source_field \notin DOMAIN Bucket(orig_ds, source_type) THEN { Panic }
    ELSE { IF v.panic THEN Panic
           ELSE merge_column(empty, target_field, target_type, v.vals) :
             v \in vec_convert(Bucket(orig_ds, source_type)[source_field],
                               source_type, target_type) }

\* !source_fields.len() == 1 : the bitwise complement of the length, at the
\* 64 bits of usize, compared with 1
UsizeNotIsOne(n) == NatAddSmall(NatAddSmall(<<>>, n), 1) = U64Max

\* ConvertConfig::transform_fields, with self.target_type() as target_type
transform_fields(target_type, orig_ds, source_fields, target_name) ==
    IF UsizeNotIsOne(Len(source_fields)) THEN { Err("DataConfigError", empty) }
    ELSE IF source_fields = <<>> THEN { Panic }
    ELSE LET source_field == Head(source_fields)
             source_finfo == get_fieldinfo(orig_ds, source_field)
         IN  IF source_finfo = None THEN { Err("DataConfigError", empty) }
             ELSE convert_field(source_field, (CHOOSE fi \in source_finfo : TRUE).ty,
                                target_name, target_type, orig_ds)

\* bounds of the model
MaxChain == 2
MaxConvLen == 2

\* the values of the source columns, in the order the columns take them
ConvVals(ty) ==
    CASE ty = "Unsigned" -> << <<>>, <<7>>, I64MaxMag, NatPow2(I64Bits), U64Max >>
      [] ty = "Signed"   -> << MkI64(FALSE, <<>>), MkI64(TRUE, <<3>>), MkI64(FALSE, I64MaxMag),
                               MkI64(TRUE, NatPow2(I64Bits)) >>
      [] ty = "Text"     -> << <<"7">>, <<"x">>, <<"-", "3">>, <<"1", ".", "5">>,
                               <<"t", "r", "u", "e">> >>
      [] ty = "Boolean"  -> << TRUE, FALSE >>
      [] ty = "Float"    -> << MkF64(FALSE, <<>>, FALSE), MkF64(FALSE, <<1>>, TRUE),
                               MkF64(TRUE, <<2>>, TRUE), F64NaN, F64Inf(FALSE) >>

\* the source columns: up to MaxConvLen successive values, from any start
ConvCols(ty) ==
    LET vals == ConvVals(ty)
    IN  { [i \in 1..n |-> vals[((k + i - 2) % Len(vals)) + 1]] :
            n \in 0..MaxConvLen, k \in 1..Len(vals) }

\* the source fields a transform may name
SourceLists == { <<>>, <<"a">>, <<"b">>, <<"a", "b">> }

\* a store that holds one column, "a"
InitConvert ==
    /\ \E ty \in FieldTypes : \E v \in ConvCols(ty) :
          ds = merge_column(empty, "a", ty, v).store
    /\ log = <<>>
    /\ eng = NoEngine

\* One Convert transform.  A failed transform ends the stage; the store a
\* successful one returns is the source of the next.
Convert(source_fields, target_name, target_type) ==
    /\ Len(log) < MaxChain
    /\ (IF log = <<>> THEN TRUE ELSE Last.ok)
    /\ \E r \in transform_fields(target_type, ds, source_fields, target_name) :
          /\ ds' = IF r.ok THEN r.store ELSE ds
          /\ log' = Append(log, Call("convert", target_name, target_type, source_fields, r))
    /\ UNCHANGED eng

TargetNames == {"b"}

NextConvert ==
    \E source_fields \in SourceLists, target_name \in TargetNames, target_type \in FieldTypes :
        Convert(source_fields, target_name, target_type)

SpecConvert == InitConvert /\ [][NextConvert]_vars

----------------------------------------------------------------------------
(* Properties of the store *)

\* the types under which a store holds a column called n
TypesOf(s, n) == {ty \in FieldTypes : n \in DOMAIN Bucket(s, ty)}

\* every name a store knows, by descriptor or by column
AllNames(s) == (DOMAIN s.field_map) \cup UNION {DOMAIN Bucket(s, ty) : ty \in FieldTypes}

\* the columns of a store, as <<type, name>>
Columns(s) == {c \in FieldTypes \X AllNames(s) : c[2] \in DOMAIN Bucket(s, c[1])}

Col(s, c) == Bucket(s, c[1])[c[2]]

\* C1: in every store reached by insert and merge_column calls, successful or
\* failed, each column name is in exactly one of the five type buckets.
C1_NameInOneBucket ==
    \A n \in AllNames(ds) : Cardinality(TypesOf(ds, n)) = 1

\* C2: merge_column returns DuplicateField whenever the store already holds a
\* column of that name, whatever the two types.
C2_MergeExistingNameFails ==
    (log # <<>> /\ Last.op = "merge_column" /\ Last.name \in AllNames(Last.before))
        => (~Last.ok /\ Last.err = "DuplicateField")

\* C3: merge(other) is all or nothing: when a column name of other is already
\* in self, it returns DuplicateField and leaves self as it was.
C3_MergeAllOrNothing ==
    (log # <<>> /\ Last.op = "merge"
       /\ AllNames(Last.arg) \cap AllNames(Last.before) # {})
        => (~Last.ok /\ Last.err = "DuplicateField" /\ ds = Last.before)

\* the lengths of the columns of one bucket, and of the whole store
BucketLens(s, ty) == {Len(Bucket(s, ty)[k]) : k \in DOMAIN Bucket(s, ty)}
StoreLens(s) == UNION {BucketLens(s, ty) : ty \in FieldTypes}

\* C4 as stated: is_homogeneous() is true exactly when all columns of
\* non-zero length have the same length; zero-length columns never matter.
C4_NonEmptyColumnsShareLength ==
    is_homogeneous(ds) <=> (Cardinality(StoreLens(ds) \ {0}) <= 1)

\* C4 as amended: is_homogeneous() is true exactly when, within every type
\* bucket, all columns have the same length (zero-length ones included) and
\* the non-zero lengths of the buckets agree.
C4_BucketsUniformAndAgree ==
    is_homogeneous(ds) <=>
        /\ \A ty \in FieldTypes : Cardinality(BucketLens(ds, ty)) <= 1
        /\ Cardinality(StoreLens(ds) \ {0}) <= 1

\* a zero-length column beside a non-empty one of its bucket, and another
\* store where the zero-length column is alone in its bucket
C4_Witness ==
    /\ Len(log) = 2
    /\ \E ty \in FieldTypes : BucketLens(ds, ty) = {0, 1}
    /\ ~is_homogeneous(ds)
    /\ \E t1 \in FieldTypes, t2 \in FieldTypes :
          /\ BucketLens(log[2].before, t1) = {0}
          /\ is_homogeneous(merge_column(log[2].before, "b", t2, SampleCol(t2, 1)).store)

\* v.truncate(m) on one column of a store (its fields are public)
Truncated(s, c, m) ==
    WithBucket(s, c[1], [Bucket(s, c[1]) EXCEPT ![c[2]] = SubSeq(@, 1, m)])

\* C6: in a store of at least two columns (each under a name of its own),
\* all of one length n >= 1, shortening any one column to any m < n makes
\* is_homogeneous() false.
C6_TruncationBreaksHomogeneity ==
    (/\ Cardinality(Columns(ds)) >= 2
     /\ \A n \in AllNames(ds) : Cardinality(TypesOf(ds, n)) = 1
     /\ Cardinality(StoreLens(ds)) = 1 /\ 0 \notin StoreLens(ds))
        => \A c \in Columns(ds) : \A m \in 0..(Len(Col(ds, c)) - 1) :
              ~is_homogeneous(Truncated(ds, c, m))

\* which raw cells of the model are literals of which type
ValidLiteral(ty, value_str) ==
    CASE value_str = <<"7">>                -> ty \in {"Unsigned", "Signed", "Text", "Float"}
      [] value_str = <<"-", "3">>           -> ty \in {"Signed", "Text", "Float"}
      [] value_str = <<"1", ".", "5">>      -> ty \in {"Text", "Float"}
      [] value_str = <<"t", "r", "u", "e">> -> ty \in {"Text", "Boolean"}
      [] OTHER                              -> ty = "Text"

\* C7: insert with a raw string that is no literal of the type returns a parse
\* error and leaves the store as it was; with a literal it appends exactly one
\* value to the named column of that type, creating the column, and the
\* descriptor when the name has none, and touches nothing else.
C7_InsertParsesOrLeavesStore ==
    (log # <<>> /\ Last.op = "insert") =>
        LET b   == Last.before
            c   == <<Last.ty, Last.name>>
            old == IF c \in Columns(b) THEN Col(b, c) ELSE <<>>
        IN  IF ~ValidLiteral(Last.ty, Last.arg)
            THEN ~Last.ok /\ Last.err = "ParseError" /\ ds = b
            ELSE /\ Last.ok
                 /\ Columns(ds) = Columns(b) \cup {c}
                 /\ Len(Col(ds, c)) = Len(old) + 1
                 /\ SubSeq(Col(ds, c), 1, Len(old)) = old
                 /\ Col(ds, c)[Len(old) + 1] \in ParseAs(Last.ty, Last.arg)
                 /\ \A d \in Columns(b) \ {c} : Col(ds, d) = Col(b, d)
                 /\ ds.fields =
                      IF Last.name \in DOMAIN b.field_map THEN b.fields
                      ELSE Append(b.fields, FieldInfo(Len(b.fields), Last.name, Last.ty))

\* a rejected insert into a store that already holds a column, and an
\* accepted one that appends to an existing column
C7_Witness ==
    /\ Len(log) = 2
    /\ log[1].op = "insert" /\ log[1].ok
    /\ Last.op = "insert" /\ ~Last.ok /\ Last.ty # "Text"
    /\ insert(ds, log[1].name, log[1].ty, log[1].arg).ok

----------------------------------------------------------------------------
(* Properties of ingestion *)

\* C5: after an ingestion that returns success, every column of the loaded
\* store has length row_count(), the maximum column length.
C5_LoadedColumnsHaveRowCount ==
    (log # <<>> /\ Last.op = "extract_data" /\ Last.ok)
        => \A c \in Columns(ds) : Len(Col(ds, c)) = nrows(ds)

\* a successful load of MaxRows rows into columns of two different types
C5_Witness ==
    /\ log # <<>> /\ Last.op = "extract_data" /\ Last.ok
    /\ Len(Last.arg.rows) = MaxRows
    /\ Cardinality({c[1] : c \in Columns(ds)}) = 2

----------------------------------------------------------------------------
(* Properties of conversion *)

\* the i-th call is a Convert transform that reaches convert_field: it names
\* a source field the store it is given describes
ReachesConvert(i) ==
    /\ log[i].op = "convert"
    /\ log[i].arg # <<>>
    /\ get_fieldinfo(log[i].before, log[i].arg[1]) # None

\* the type and the column of the source field of the i-th call
SourceType(i) == (CHOOSE fi \in get_fieldinfo(log[i].before, log[i].arg[1]) : TRUE).ty
SourceCol(i) == Bucket(log[i].before, SourceType(i))[log[i].arg[1]]

\* C8: convert never panics: for each of the 25 pairs of types and every
\* source column it returns a column or an error value.
C8_ConvertNeverPanics ==
    \A i \in 1..Len(log) : ReachesConvert(i) => log[i].err # "panic"

\* C9: converting an Unsigned column to Text and the result back to Unsigned
\* yields a column equal to the original: same length, values and order.
C9_UnsignedTextRoundTrip ==
    \A i \in 1..(Len(log) - 1) :
        ( /\ ReachesConvert(i) /\ SourceType(i) = "Unsigned" /\ log[i].ty = "Text"
          /\ ReachesConvert(i + 1) /\ SourceType(i + 1) = "Text"
          /\ log[i + 1].ty = "Unsigned" )
        => /\ log[i].ok /\ log[i + 1].ok
           /\ LET after == IF i + 1 = Len(log) THEN ds ELSE log[i + 2].before
              IN  /\ log[i + 1].name \in DOMAIN after.unsigned
                  /\ after.unsigned[log[i + 1].name] = SourceCol(i)

\* a round trip of a column of several values, the largest u64 among them
C9_Witness ==
    /\ Len(log) = 2
    /\ ReachesConvert(1) /\ SourceType(1) = "Unsigned" /\ log[1].ty = "Text"
    /\ ReachesConvert(2) /\ SourceType(2) = "Text" /\ log[2].ty = "Unsigned"
    /\ log[2].ok
    /\ Len(SourceCol(1)) >= 2
    /\ \E k \in 1..Len(SourceCol(1)) : SourceCol(1)[k] = U64Max
    /\ ds.unsigned[log[2].name] = SourceCol(1)

\* C10: converting a Text column to Unsigned, Signed, Boolean or Float when one
\* of its values is no literal of the target type fails with an error result:
\* the transform returns Err and produces no target column.
C10_UnparsableTextIsErr ==
    \A i \in 1..Len(log) :
        ( /\ ReachesConvert(i) /\ SourceType(i) = "Text"
          /\ log[i].ty \in {"Unsigned", "Signed", "Boolean", "Float"}
          /\ \E k \in 1..Len(SourceCol(i)) : ~ValidLiteral(log[i].ty, SourceCol(i)[k]) )
        => ~log[i].ok /\ log[i].err # "panic"

\* a + b + c of two naturals and a carry
RECURSIVE NatSum(_, _, _)
NatSum(a, b, c) ==
    IF a = <<>> /\ b = <<>> THEN (IF c = 0 THEN <<>> ELSE <<c>>)
    ELSE LET x == IF a = <<>> THEN 0 ELSE Head(a)
             y == IF b = <<>> THEN 0 ELSE Head(b)
             t == x + y + c
         IN  <<t % LimbBase>>
               \o NatSum(IF a = <<>> THEN <<>> ELSE Tail(a),
                         IF b = <<>> THEN <<>> ELSE Tail(b), t \div LimbBase)

\* the u64 u and the i64 i are one 64-bit pattern: equal, or 2^64 apart
SameBits(u, i) ==
    IF i.neg THEN NatSum(u, i.mag, 0) = NatPow2(U64Bits)
    ELSE u = i.mag /\ FitsI64Pos(u)

\* the store the i-th call left
StoreAfter(i) == IF i = Len(log) THEN ds ELSE log[i + 1].before

\* C11: a numeric conversion is a native cast without bounds check: a column
\* with a negative Signed value converts to Unsigned, and one with an Unsigned
\* value above the signed maximum converts to Signed, successfully and to the
\* values wrapped modulo 2^64.
C11_NumericCastWraps ==
    \A i \in 1..Len(log) :
        ( /\ ReachesConvert(i)
          /\ \/ /\ SourceType(i) = "Signed" /\ log[i].ty = "Unsigned"
                /\ \E k \in 1..Len(SourceCol(i)) : SourceCol(i)[k].neg
             \/ /\ SourceType(i) = "Unsigned" /\ log[i].ty = "Signed"
                /\ \E k \in 1..Len(SourceCol(i)) : ~FitsI64Pos(SourceCol(i)[k]) )
        => /\ log[i].ok
           /\ LET out == Bucket(StoreAfter(i), log[i].ty)[log[i].name]
              IN  /\ Len(out) = Len(SourceCol(i))
                  /\ \A k \in 1..Len(out) :
                        IF log[i].ty = "Unsigned" THEN SameBits(out[k], SourceCol(i)[k])
                        ELSE SameBits(SourceCol(i)[k], out[k])

----------------------------------------------------------------------------
(* Filters (config.rs) *)

\* the order of two naturals, of two i64 and of two f64: "lt", "eq", "gt",
\* or "un" when a NaN makes the f64 unordered
NatCmp(a, b) == IF a = b THEN "eq" ELSE IF NatLess(a, b) THEN "lt" ELSE "gt"

Flip(c) == CASE c = "lt" -> "gt" [] c = "gt" -> "lt" [] OTHER -> c

I64Cmp(a, b) ==
    IF a.neg # b.neg THEN (IF a.neg THEN "lt" ELSE "gt")
    ELSE IF a.neg THEN Flip(NatCmp(a.mag, b.mag))
    ELSE NatCmp(a.mag, b.mag)

\* the order of the absolute values of two finite or infinite f64
F64AbsCmp(a, b) ==
    IF a.cls = "inf" \/ b.cls = "inf"
    THEN (IF a.cls = b.cls THEN "eq" ELSE IF a.cls = "inf" THEN "gt" ELSE "lt")
    ELSE IF a.mag # b.mag THEN NatCmp(a.mag, b.mag)
    ELSE IF a.half = b.half THEN "eq"
    ELSE IF b.half THEN "lt" ELSE "gt"

F64IsZero(a) == a.cls = "fin" /\ a.mag = <<>> /\ ~a.half

F64Cmp(a, b) ==
    IF a.cls = "nan" \/ b.cls = "nan" THEN "un"
    ELSE IF F64IsZero(a) /\ F64IsZero(b) THEN "eq"
    ELSE IF a.neg # b.neg THEN (IF a.neg THEN "lt" ELSE "gt")
    ELSE IF a.neg THEN Flip(F64AbsCmp(a, b))
    ELSE F64AbsCmp(a, b)

\* a Result<bool>
FOk(b) == [ok |-> TRUE, err |-> "", val |-> b]
FErr(e) == [ok |-> FALSE, err |-> e, val |-> FALSE]

\* a variant that takes a cell that does not parse for a cell that differs
does_match_unparsed_differs(config, value_str) ==
    IF config.text # None THEN FOk((CHOOSE s \in config.text : TRUE) = value_str)
    ELSE IF config.signed # None
    THEN FOk(\E i \in config.signed : \E v \in ParseI64(value_str) : I64Cmp(i, v) = "eq")
    ELSE IF config.unsigned # None
    THEN FOk(\E u \in config.unsigned : \E v \in ParseU64(value_str) : NatCmp(u, v) = "eq")
    ELSE IF config.boolean # None
    THEN FOk(\E b \in config.boolean : \E v \in ParseBool(value_str) : b = v)
    ELSE IF config.float # None
    THEN FOk(\E f \in config.float : \E v \in ParseF64(value_str) : F64Cmp(f, v) = "eq")
    ELSE FErr("DataConfigError")

\* MatchConfig::does_match
does_match(config, value_str) ==
    IF config.text # None THEN FOk((CHOOSE s \in config.text : TRUE) = value_str)
    ELSE IF config.signed # None
    THEN (IF ParseI64(value_str) = None THEN FErr("ParseError")
          ELSE FOk(\E i \in config.signed : \E v \in ParseI64(value_str) : I64Cmp(i, v) = "eq"))
    ELSE IF config.unsigned # None
    THEN (IF ParseU64(value_str) = None THEN FErr("ParseError")
          ELSE FOk(\E u \in config.unsigned : \E v \in ParseU64(value_str) : NatCmp(u, v) = "eq"))
    ELSE IF config.boolean # None
    THEN (IF ParseBool(value_str) = None THEN FErr("ParseError")
          ELSE FOk(\E b \in config.boolean : \E v \in ParseBool(value_str) : b = v))
    ELSE IF config.float # None
    THEN (IF ParseF64(value_str) = None THEN FErr("ParseError")
          ELSE FOk(\E f \in config.float : \E v \in ParseF64(value_str) : F64Cmp(f, v) = "eq"))
    ELSE FErr("DataConfigError")

InequalityMethods == {"Gt", "Gte", "Lt", "Lte"}

\* a variant with the operands exchanged: target compared against value
inequality_does_satisfy_swapped(inequality, cmp) ==
    CASE inequality = "Gt"  -> cmp = "lt"
      [] inequality = "Gte" -> cmp \in {"lt", "eq"}
      [] inequality = "Lt"  -> cmp = "gt"
      [] inequality = "Lte" -> cmp \in {"gt", "eq"}

\* InequalityMethod::does_satisfy, with cmp the order of value against target
inequality_does_satisfy(inequality, cmp) ==
    CASE inequality = "Gt"  -> cmp = "gt"
      [] inequality = "Gte" -> cmp \in {"gt", "eq"}
      [] inequality = "Lt"  -> cmp = "lt"
      [] inequality = "Lte" -> cmp \in {"lt", "eq"}

\* InequalityConfig::does_satisfy
does_satisfy(config, value_str) ==
    IF config.signed # None
    THEN (IF ParseI64(value_str) = None THEN FErr("ParseError")
          ELSE FOk(\E i \in config.signed : \E v \in ParseI64(value_str) :
                      inequality_does_satisfy(config.inequality, I64Cmp(v, i))))
    ELSE IF config.unsigned # None
    THEN (IF ParseU64(value_str) = None THEN FErr("ParseError")
          ELSE FOk(\E u \in config.unsigned : \E v \in ParseU64(value_str) :
                      inequality_does_satisfy(config.inequality, NatCmp(v, u))))
    ELSE IF config.float # None
    THEN (IF ParseF64(value_str) = None THEN FErr("ParseError")
          ELSE FOk(\E f \in config.float : \E v \in ParseF64(value_str) :
                      inequality_does_satisfy(config.inequality, F64Cmp(v, f))))
    ELSE FErr("DataConfigError")

\* a variant where a filter without a target rejects every cell
apply_rejecting_without_target(filter, value_str) ==
    LET r == CASE filter.method = "Inequality" -> does_satisfy(filter.config, value_str)
               [] OTHER -> does_match(filter.config, value_str)
    IN  IF ~r.ok /\ r.err = "DataConfigError" THEN FOk(FALSE)
        ELSE IF r.ok /\ filter.method = "MatchNot" THEN FOk(~r.val)
        ELSE r

\* FilterMethod::apply (Filter::apply hands the cell on to it)
apply(filter, value_str) ==
    CASE filter.method = "Match"      -> does_match(filter.config, value_str)
      [] filter.method = "MatchNot"   ->
            LET r == does_match(filter.config, value_str)
            IN  IF r.ok THEN FOk(~r.val) ELSE r
      [] filter.method = "Inequality" -> does_satisfy(filter.config, value_str)

\* the targets a filter of the model may hold, per type
TextTargets == {None, Some(<<"7">>)}
SignedTargets == {None, Some(MkI64(FALSE, <<7>>)), Some(MkI64(TRUE, <<3>>))}
UnsignedTargets == {None, Some(<<7>>)}
BooleanTargets == {None, Some(TRUE)}
FloatTargets == {None, Some(MkF64(FALSE, <<7>>, FALSE)), Some(MkF64(FALSE, <<1>>, TRUE))}

MatchConfigs ==
    [text : TextTargets, signed : SignedTargets, unsigned : UnsignedTargets,
     boolean : BooleanTargets, float : FloatTargets]

InequalityConfigs ==
    [inequality : InequalityMethods, signed : SignedTargets, unsigned : UnsignedTargets,
     float : FloatTargets]

Filters ==
    [method : {"Match", "MatchNot"}, config : MatchConfigs]
      \cup [method : {"Inequality"}, config : InequalityConfigs]

\* the raw cells a filter is applied to
FilterCells == { <<"7">>, <<"-", "3">>, <<"1", ".", "5">>, <<"t", "r", "u", "e">>, <<"x">> }

\* One application of a filter to a raw cell.
Apply(filter, value_str) ==
    /\ log = <<>>
    /\ LET r == apply(filter, value_str)
       IN  log' = <<[op |-> "apply", name |-> "", ty |-> "",
                     arg |-> [filter |-> filter, value_str |-> value_str],
                     before |-> ds, ok |-> r.ok, err |-> r.err, val |-> r.val]>>
    /\ UNCHANGED <<ds, eng>>

\* a behaviour holds one application
NextFilter ==
    /\ log = <<>>
    /\ \E filter \in Filters, value_str \in FilterCells : Apply(filter, value_str)

SpecFilter == Init /\ [][NextFilter]_vars

----------------------------------------------------------------------------
(* Properties of filters *)

\* the types whose target a configuration populates
Populated(config) ==
    {ty \in (DOMAIN config) \ {"inequality"} : config[ty] # None}

TargetType(field) ==
    CASE field = "text" -> "Text" [] field = "signed" -> "Signed"
      [] field = "unsigned" -> "Unsigned" [] field = "boolean" -> "Boolean"
      [] field = "float" -> "Float"

\* C12: a Match or MatchNot filter with a signed, unsigned, boolean or float
\* target, applied to a cell that does not parse as the target's type,
\* returns an error: never Ok(false) for Match nor Ok(true) for MatchNot.
C12_MatchUnparsableIsError ==
    (log # <<>> /\ Last.op = "apply" /\ Last.arg.filter.method \in {"Match", "MatchNot"})
        => \A field \in {"signed", "unsigned", "boolean", "float"} :
              ( /\ Populated(Last.arg.filter.config) = {field}
                /\ ~ValidLiteral(TargetType(field), Last.arg.value_str) )
              => ~Last.ok /\ Last.err = "ParseError"

\* a MatchNot filter with a signed target met a cell that is no integer
C12_Witness ==
    /\ log # <<>> /\ Last.op = "apply" /\ Last.arg.filter.method = "MatchNot"
    /\ Populated(Last.arg.filter.config) = {"signed"}
    /\ Last.arg.value_str = <<"x">>
    /\ ~Last.ok

\* C13: a Match, MatchNot or Inequality filter none of whose typed targets is
\* populated returns a configuration error for every cell, never a boolean.
C13_NoTargetIsConfigError ==
    (log # <<>> /\ Last.op = "apply" /\ Populated(Last.arg.filter.config) = {})
        => ~Last.ok /\ Last.err = "DataConfigError"

\* an Inequality filter without a target met a cell that is a number
C13_Witness ==
    /\ log # <<>> /\ Last.op = "apply" /\ Last.arg.filter.method = "Inequality"
    /\ Populated(Last.arg.filter.config) = {}
    /\ Last.arg.value_str = <<"7">>
    /\ ~Last.ok

----------------------------------------------------------------------------
(* Ingestion with filters (spec 4.4) *)

\* Binding of the header row: each header column whose name is the source
\* name of a field specification, with its index, its target name and type
\* and the filter of that source field, if any.
RECURSIVE bind_headers_from(_, _, _, _)
bind_headers_from(headers, fields, filters, i) ==
    IF i > Len(headers) THEN <<>>
    ELSE (IF headers[i] \in DOMAIN fields
          THEN <<[index |-> i - 1, name |-> fields[headers[i]].target_name,
                  ty |-> fields[headers[i]].ty,
                  filter |-> IF headers[i] \in DOMAIN filters
                             THEN Some(filters[headers[i]]) ELSE None]>>
          ELSE <<>>)
         \o bind_headers_from(headers, fields, filters, i + 1)

bind_headers(headers, fields, filters) == bind_headers_from(headers, fields, filters, 1)

\* Every bound filter of the row is evaluated on the cell of its field: an
\* error of a filter aborts, otherwise the row passes when none rejects.
\* the verdict on a row from the verdict of one filter and that of the
\* filters after it: the first error, or whether all accept
both_pass(r, rest) ==
    IF ~r.ok THEN r
    ELSE IF ~rest.ok THEN rest
    ELSE FOk(r.val /\ rest.val)

RECURSIVE row_passes(_, _, _)
row_passes(row, bound, i) ==
    IF i > Len(bound) THEN FOk(TRUE)
    ELSE IF bound[i].filter = None THEN row_passes(row, bound, i + 1)
    ELSE both_pass(apply(CHOOSE f \in bound[i].filter : TRUE, row[bound[i].index + 1]),
                   row_passes(row, bound, i + 1))

\* the bound fields of a row that passed are inserted
RECURSIVE commit_row(_, _, _, _)
commit_row(data, row, bound, i) ==
    IF i > Len(bound) THEN Ok(data)
    ELSE LET r == insert(data, bound[i].name, bound[i].ty, row[bound[i].index + 1])
         IN  IF r.ok THEN commit_row(r.store, row, bound, i + 1) ELSE r

\* a row whose filters gave the verdict p: an error ends the load, a rejected
\* row leaves the store as it is, an accepted row is inserted
commit_if(p, data, row, bound) ==
    IF ~p.ok THEN Err(p.err, data)
    ELSE IF ~p.val THEN Ok(data)
    ELSE commit_row(data, row, bound, 1)

\* a variant that commits field by field, each field as soon as its own
\* filter has accepted the cell
RECURSIVE load_row_field_by_field(_, _, _, _)
load_row_field_by_field(data, row, bound, i) ==
    IF i > Len(bound) THEN Ok(data)
    ELSE LET f == IF bound[i].filter = None THEN FOk(TRUE)
                  ELSE apply(CHOOSE g \in bound[i].filter : TRUE, row[bound[i].index + 1])
         IN  IF ~f.ok THEN Err(f.err, data)
             ELSE IF ~f.val THEN Ok(data)
             ELSE LET r == insert(data, bound[i].name, bound[i].ty, row[bound[i].index + 1])
                  IN  IF r.ok THEN load_row_field_by_field(r.store, row, bound, i + 1) ELSE r

load_row_committing_early(data, row, bound) == load_row_field_by_field(data, row, bound, 1)

\* one data row: filters first, then the insertion of every bound field or
\* of none
load_row(data, row, bound) == commit_if(row_passes(row, bound, 1), data, row, bound)

\* the rows in order; the first error ends the load
RECURSIVE load_rows(_, _, _)
RECURSIVE load_rest(_, _, _)
load_rest(r, rows, bound) == IF r.ok THEN load_rows(r.store, Tail(rows), bound) ELSE r

load_rows(data, rows, bound) ==
    IF rows = <<>> THEN Ok(data)
    ELSE load_rest(load_row(data, Head(rows), bound), rows, bound)

\* the check of the field lengths that ends a load
check_lengths(r) ==
    IF ~r.ok THEN r
    ELSE IF ~is_homogeneous(r.store) THEN Err("InconsistentLengths", r.store)
    ELSE r

\* one source file: the rows, then the check of the field lengths
load_file(headers, fields, filters, rows) ==
    check_lengths(load_rows(empty, rows, bind_headers(headers, fields, filters)))

\* bounds of the model
MaxLoadRows == 3

\* header rows: the filtered field first or last
LoadHeaders == { <<"c", "f">>, <<"f", "c">> }

\* field specifications: c is Signed, f is Float or Text
LoadFields ==
    { [n \in {"c", "f"} |-> [target_name |-> n,
                             ty |-> IF n = "c" THEN "Signed" ELSE fty]] :
        fty \in {"Float", "Text"} }

NoTarget == [text |-> None, signed |-> None, unsigned |-> None, boolean |-> None, float |-> None]
SignedTarget(n) == Some(MkI64(FALSE, <<n>>))

InequalityFilter(inequality, signed, float) ==
    [method |-> "Inequality",
     config |-> [inequality |-> inequality, signed |-> signed, unsigned |-> None,
                 float |-> float]]

\* the filters on c, and those on f
FiltersOnC ==
    { InequalityFilter("Gte", SignedTarget(4), None),
      InequalityFilter("Lt", SignedTarget(5), None),
      [method |-> "MatchNot", config |-> [NoTarget EXCEPT !.signed = SignedTarget(5)]] }

FiltersOnF ==
    { [method |-> "Match", config |-> [NoTarget EXCEPT !.text = Some(<<"7">>)]],
      InequalityFilter("Gt", None, Some(MkF64(FALSE, <<1>>, TRUE))) }

\* the filter lists of a source file: at most one filter per field
LoadFilters ==
    { <<>> } \cup { [n \in {"c"} |-> fc] : fc \in FiltersOnC }
             \cup { [n \in {"f"} |-> ff] : ff \in FiltersOnF }
             \cup { [n \in {"c", "f"} |-> IF n = "c" THEN fc ELSE ff] :
                      fc \in FiltersOnC, ff \in FiltersOnF }

\* the cells of field c, in the order its column takes them, and of field f
CellsOfC == << <<"3">>, <<"5">>, <<"6">> >>
CellsOfF == { <<"7">>, <<"x">> }

\* the data rows of a file: up to MaxLoadRows rows, the cells of c successive
\* from any start, the cells of f free
LoadRows(headers) ==
    UNION { { [i \in 1..n |->
                 [j \in 1..Len(headers) |->
                     IF headers[j] = "c" THEN CellsOfC[((k + i - 2) % Len(CellsOfC)) + 1]
                     ELSE fs[i]]] :
              k \in 1..Len(CellsOfC), fs \in [1..n -> CellsOfF] } :
            n \in 0..MaxLoadRows }

\* One ingestion of one source file.  On an error no store is returned.
LoadFile(headers, fields, filters, rows) ==
    /\ log = <<>>
    /\ LET r == load_file(headers, fields, filters, rows)
       IN  /\ ds' = IF r.ok THEN r.store ELSE ds
           /\ log' = Append(log, Call("load_file", "", "",
                                      [headers |-> headers, fields |-> fields,
                                       filters |-> filters, rows |-> rows], r))
    /\ UNCHANGED eng

\* a behaviour holds one ingestion
NextLoad ==
    /\ log = <<>>
    /\ \E headers \in LoadHeaders, fields \in LoadFields, filters \in LoadFilters :
          \E rows \in LoadRows(headers) : LoadFile(headers, fields, filters, rows)

SpecLoad == Init /\ [][NextLoad]_vars

----------------------------------------------------------------------------
(* Properties of ingestion with filters *)

\* the positions of the header row that are bound to a field
BoundCols(a) == {j \in 1..Len(a.headers) : a.headers[j] \in DOMAIN a.fields}

\* the number a cell of the model denotes and the target of a filter of the
\* model, both counted in halves
CellHalves(cell) ==
    CASE cell = <<"3">> -> 6 [] cell = <<"5">> -> 10 [] cell = <<"6">> -> 12
      [] cell = <<"7">> -> 14

TargetHalves(config) ==
    IF config.signed # None THEN 2 * (CHOOSE i \in config.signed : TRUE).mag[1]
    ELSE LET f == CHOOSE f \in config.float : TRUE
         IN  2 * f.mag[1] + (IF f.half THEN 1 ELSE 0)

\* what a filter of the model is to answer on a cell that its target's type
\* can hold
Accepts(filter, cell) ==
    IF filter.config.signed = None /\ filter.config.float = None
    THEN (cell \in filter.config.text) = (filter.method = "Match")
    ELSE LET v == CellHalves(cell)
             g == TargetHalves(filter.config)
         IN  CASE filter.method = "Match"    -> v = g
               [] filter.method = "MatchNot" -> v # g
               [] filter.config.inequality = "Gt"  -> v > g
               [] filter.config.inequality = "Gte" -> v >= g
               [] filter.config.inequality = "Lt"  -> v < g
               [] filter.config.inequality = "Lte" -> v <= g

\* every filter bound to the row returns true
RowAccepted(a, row) ==
    \A j \in BoundCols(a) :
        a.headers[j] \in DOMAIN a.filters => Accepts(a.filters[a.headers[j]], row[j])

\* the rows of the file that every bound filter accepts, in file order
AcceptedRows(a) == SelectSeq(a.rows, LAMBDA row : RowAccepted(a, row))

\* C14: all filters of a row are evaluated before any of its fields is
\* inserted: when a filter rejects rows, no column of the loaded store holds
\* a value for them, wherever the filtered field is among the bound fields.
C14_RejectedRowInsertsNothing ==
    (log # <<>> /\ Last.op = "load_file" /\ Last.ok
       /\ Len(AcceptedRows(Last.arg)) < Len(Last.arg.rows))
        => /\ \A c \in Columns(ds) : Len(Col(ds, c)) = Len(AcceptedRows(Last.arg))
           /\ (AcceptedRows(Last.arg) = <<>> => Columns(ds) = {})

\* a load where the filter of the last bound field rejected a row and
\* accepted another
C14_Witness ==
    /\ log # <<>> /\ Last.op = "load_file" /\ Last.ok
    /\ Last.arg.headers[Len(Last.arg.headers)] \in DOMAIN Last.arg.filters
    /\ Last.arg.headers[1] \notin DOMAIN Last.arg.filters
    /\ AcceptedRows(Last.arg) # <<>>
    /\ Len(AcceptedRows(Last.arg)) < Len(Last.arg.rows)
    /\ Cardinality(Columns(ds)) = 2

\* C15: the loaded store holds exactly the rows every bound filter accepts,
\* in file order, the same rows in every column; Gt, Gte, Lt and Lte compare
\* the parsed cell, on the left, with the target, on the right.
C15_LoadedRowsAreAcceptedRows ==
    (log # <<>> /\ Last.op = "load_file" /\ Last.ok)
        => LET a    == Last.arg
               kept == AcceptedRows(a)
           IN  /\ \A j \in BoundCols(a) :
                     LET f == a.fields[a.headers[j]]
                     IN  kept # <<>> =>
                           /\ f.target_name \in DOMAIN Bucket(ds, f.ty)
                           /\ Bucket(ds, f.ty)[f.target_name]
                                = [i \in 1..Len(kept) |->
                                     CHOOSE v \in ParseAs(f.ty, kept[i][j]) : TRUE]
               /\ Cardinality(Columns(ds)) = IF kept = <<>> THEN 0 ELSE Cardinality(BoundCols(a))

\* the rows with c = 3, 5, 6 under Inequality Gte 4 on c load as c = 5, 6
C15_Witness ==
    /\ log # <<>> /\ Last.op = "load_file" /\ Last.ok
    /\ Len(Last.arg.rows) = 3
    /\ LET j == CHOOSE j \in 1..2 : Last.arg.headers[j] = "c"
       IN  [i \in 1..3 |-> Last.arg.rows[i][j]] = << <<"3">>, <<"5">>, <<"6">> >>
    /\ Last.arg.filters = [n \in {"c"} |-> InequalityFilter("Gte", SignedTarget(4), None)]
    /\ ds.signed["c"] = << MkI64(FALSE, <<5>>), MkI64(FALSE, <<6>>) >>
    /\ Last.arg.fields["f"].ty = "Text"
    /\ Len(ds.text["f"]) = 2

----------------------------------------------------------------------------
(* Transforms (transform.rs, config.rs) *)

\* a String of the model as a field name
RECURSIVE Str(_)
Str(s) == IF s = <<>> THEN "" ELSE Head(s) \o Str(Tail(s))

ConfigError == Err("DataConfigError", empty)

\* a variant that does not test the declared type of the source field
single_source_untyped(orig_ds, source_fields, required) ==
    IF UsizeNotIsOne(Len(source_fields)) THEN [col |-> None, end |-> ConfigError]
    ELSE IF source_fields = <<>> THEN [col |-> None, end |-> Panic]
    ELSE LET source_field == Head(source_fields)
             source_finfo == get_fieldinfo(orig_ds, source_field)
         IN  IF source_finfo = None THEN [col |-> None, end |-> ConfigError]
             ELSE IF source_field \notin DOMAIN Bucket(orig_ds, required)
             THEN [col |-> None, end |-> Panic]
             ELSE [col |-> Some(Bucket(orig_ds, required)[source_field]), end |-> ConfigError]

\* The opening of the transforms of one source field: the test of the number
\* of source fields, first().unwrap(), get_fieldinfo and the test of the
\* declared type; then the typed lookup of the column, unwrapped.
\* The result is the source column, or the error or panic that ends the call.
single_source(orig_ds, source_fields, required) ==
    IF UsizeNotIsOne(Len(source_fields)) THEN [col |-> None, end |-> ConfigError]
    ELSE IF source_fields = <<>> THEN [col |-> None, end |-> Panic]
    ELSE LET source_field == Head(source_fields)
             source_finfo == get_fieldinfo(orig_ds, source_field)
         IN  IF source_finfo = None THEN [col |-> None, end |-> ConfigError]
             ELSE IF (CHOOSE fi \in source_finfo : TRUE).ty # required
             THEN [col |-> None, end |-> ConfigError]
             ELSE IF source_field \notin DOMAIN Bucket(orig_ds, required)
             THEN [col |-> None, end |-> Panic]
             ELSE [col |-> Some(Bucket(orig_ds, required)[source_field]), end |-> ConfigError]

\* MapConfig::transform_fields
map_transform_fields(config, orig_ds, source_fields, target_name) ==
    LET src == single_source(orig_ds, source_fields, "Text")
    IN  IF src.col = None THEN { src.end }
        ELSE LET data_vec == CHOOSE v \in src.col : TRUE
             IN  { merge_column(empty, target_name, "Text",
                       [i \in 1..Len(data_vec) |->
                           IF data_vec[i] \in DOMAIN config.map THEN config.map[data_vec[i]]
                           ELSE config.default_value]) }

\* the loop of ConcatenateConfig::transform_fields over the source fields:
\* the columns gathered, or the error or panic that ends the call
RECURSIVE concatenate_sources(_, _, _)
concatenate_sources(orig_ds, source_fields, field_data) ==
    IF source_fields = <<>> THEN [cols |-> field_data, end |-> None]
    ELSE LET source_field == Head(source_fields)
             source_finfo == get_fieldinfo(orig_ds, source_field)
         IN  IF source_finfo = None THEN [cols |-> <<>>, end |-> Some(ConfigError)]
             ELSE IF (CHOOSE fi \in source_finfo : TRUE).ty # "Text"
             THEN [cols |-> <<>>, end |-> Some(ConfigError)]
             ELSE IF source_field \notin DOMAIN orig_ds.text
             THEN [cols |-> <<>>, end |-> Some(Panic)]
             ELSE concatenate_sources(orig_ds, Tail(source_fields),
                                      Append(field_data, orig_ds.text[source_field]))

\* a variant that puts the separator after every field, the last included
RECURSIVE concatenate_row_trailing(_, _, _, _)
concatenate_row_trailing(field_data, sep, j, i) ==
    IF i > Len(field_data) THEN <<>>
    ELSE field_data[i][j] \o sep \o concatenate_row_trailing(field_data, sep, j, i + 1)

\* field_data[1][j] followed by separator and field_data[i][j] for each later i
RECURSIVE concatenate_row(_, _, _, _)
concatenate_row(field_data, sep, j, i) ==
    IF i > Len(field_data) THEN <<>>
    ELSE (IF i = 1 THEN <<>> ELSE sep) \o field_data[i][j]
           \o concatenate_row(field_data, sep, j, i + 1)

\* ConcatenateConfig::transform_fields; last_nrows is the length of the last
\* source column, and indexing a shorter column panics
concatenate_transform_fields(config, orig_ds, source_fields, target_name) ==
    IF source_fields = <<>> THEN { ConfigError }
    ELSE LET src == concatenate_sources(orig_ds, source_fields, <<>>)
         IN  IF src.end # None THEN src.end
             ELSE LET field_data == src.cols
                      last_nrows == Len(field_data[Len(field_data)])
                      sep   == IF config.separator = None THEN <<>>
                               ELSE CHOOSE s \in config.separator : TRUE
                  IN  IF \E i \in 1..Len(field_data) : Len(field_data[i]) < last_nrows
                      THEN { Panic }
                      ELSE { merge_column(empty, target_name, "Text",
                                 [j \in 1..last_nrows |-> concatenate_row(field_data, sep, j, 1)]) }

\* BinaryScaling::off_value and on_value
off_value(binary_scaling) ==
    IF binary_scaling = "ZeroOne" THEN MkF64(FALSE, <<>>, FALSE) ELSE MkF64(TRUE, <<1>>, FALSE)

on_value(binary_scaling) == MkF64(FALSE, <<1>>, FALSE)

\* the values of a column in the order they are first seen
RECURSIVE unique_values(_, _)
unique_values(data_vec, seen) ==
    IF data_vec = <<>> THEN seen
    ELSE unique_values(Tail(data_vec),
                       IF \E k \in 1..Len(seen) : seen[k] = Head(data_vec) THEN seen
                       ELSE Append(seen, Head(data_vec)))

\* the merge_float calls that end a vectorization, in order
RECURSIVE merge_floats(_, _, _, _)
merge_floats(tf_data, names, cols, i) ==
    IF i > Len(names) THEN Ok(tf_data)
    ELSE LET r == merge_column(tf_data, names[i], "Float", cols[i])
         IN  IF r.ok THEN merge_floats(r.store, names, cols, i + 1) ELSE r

\* a variant that names and fills the columns after the values in reverse
\* order of first sight
vec_onehot_reversed(config, orig_ds, source_fields, target_name) ==
    LET src == single_source(orig_ds, source_fields, "Text")
    IN  IF src.col = None THEN { src.end }
        ELSE LET data_vec == CHOOSE v \in src.col : TRUE
                 seen     == unique_values(data_vec, <<>>)
                 uniq     == [k \in 1..Len(seen) |-> seen[Len(seen) + 1 - k]]
                 scaling  == IF config.binary_scaling = None THEN "ZeroOne"
                             ELSE CHOOSE b \in config.binary_scaling : TRUE
             IN  { merge_floats(empty,
                       [k \in 1..Len(uniq) |-> target_name \o "_" \o Str(uniq[k])],
                       [k \in 1..Len(uniq) |->
                           [i \in 1..Len(data_vec) |->
                               IF data_vec[i] = uniq[k] THEN on_value(scaling)
                               ELSE off_value(scaling)]], 1) }

\* VecOneHotConfig::transform_fields
vec_onehot_transform_fields(config, orig_ds, source_fields, target_name) ==
    LET src == single_source(orig_ds, source_fields, "Text")
    IN  IF src.col = None THEN { src.end }
        ELSE LET data_vec == CHOOSE v \in src.col : TRUE
                 uniq     == unique_values(data_vec, <<>>)
                 scaling  == IF config.binary_scaling = None THEN "ZeroOne"
                             ELSE CHOOSE b \in config.binary_scaling : TRUE
             IN  { merge_floats(empty,
                       [k \in 1..Len(uniq) |-> target_name \o "_" \o Str(uniq[k])],
                       [k \in 1..Len(uniq) |->
                           [i \in 1..Len(data_vec) |->
                               IF data_vec[i] = uniq[k] THEN on_value(scaling)
                               ELSE off_value(scaling)]], 1) }

----------------------------------------------------------------------------
(* f64 arithmetic of the numeric transforms *)

\* Beside the multiples of one half, a column a transform computes holds
\*   "dy"   : num / den exactly, den a power of two above 2, num odd,
\*   "quot" : the f64 nearest to num / den, in lowest terms, den not a
\*            power of two (a correctly rounded division),
\*   "expr" : the f64 an operation yields on operands the model does not
\*            evaluate, kept as the operation and its operands.
F64Dy(neg, num, den) ==
    [cls |-> "dy", neg |-> neg, mag |-> <<>>, half |-> FALSE, num |-> num, den |-> den]

F64Quot(neg, num, den) ==
    [cls |-> "quot", neg |-> neg, mag |-> <<>>, half |-> FALSE, num |-> num, den |-> den]

F64Expr(op, args) ==
    [cls |-> "expr", neg |-> FALSE, mag |-> <<>>, half |-> FALSE, op |-> op, args |-> args]

RECURSIVE Gcd(_, _)
Gcd(a, b) == IF b = 0 THEN a ELSE Gcd(b, a % b)

RECURSIVE IsPow2(_)
IsPow2(d) == d = 1 \/ (d % 2 = 0 /\ IsPow2(d \div 2))

\* the values whose arithmetic the model evaluates: exact, and small enough
\* that sums and products of two of them are exact in f64 as well
F64Exact(x) ==
    \/ x.cls = "fin" /\ (x.mag = <<>> \/ (Len(x.mag) = 1 /\ x.mag[1] < 2^13))
    \/ x.cls = "dy" /\ x.num < 2^14 /\ x.den < 2^14

\* an exact value as numerator (absolute) and denominator
RatOf(x) ==
    IF x.cls = "dy" THEN [n |-> x.num, d |-> x.den]
    ELSE [n |-> 2 * (IF x.mag = <<>> THEN 0 ELSE x.mag[1]) + (IF x.half THEN 1 ELSE 0),
          d |-> 2]

\* the f64 of the exact value (-1)^neg * n / d, n > 0 or a signed zero
F64OfRat(neg, n, d) ==
    LET g  == Gcd(n, d)
        rn == n \div g
        rd == d \div g
        m  == IF rd = 1 THEN rn ELSE rn \div 2
    IN  IF rd <= 2
        THEN MkF64(neg, NatNorm(<<m % LimbBase, m \div LimbBase>>), rd = 2)
        ELSE IF IsPow2(rd) THEN F64Dy(neg, rn, rd)
        ELSE F64Quot(neg, rn, rd)

F64Unknown(x) == x.cls \in {"quot", "expr"} \/ (x.cls \in {"fin", "dy"} /\ ~F64Exact(x))

F64Negate(x) == IF x.cls = "nan" THEN x ELSE [x EXCEPT !.neg = ~x.neg]

\* a + b
F64Add(a, b) ==
    IF a.cls = "nan" \/ b.cls = "nan" THEN F64NaN
    ELSE IF F64Unknown(a) \/ F64Unknown(b) THEN F64Expr("add", <<a, b>>)
    ELSE IF a.cls = "inf" /\ b.cls = "inf"
    THEN (IF a.neg = b.neg THEN a ELSE F64NaN)
    ELSE IF a.cls = "inf" THEN a
    ELSE IF b.cls = "inf" THEN b
    ELSE LET ra == RatOf(a)
             rb == RatOf(b)
             sa == IF a.neg THEN 0 - ra.n ELSE ra.n
             sb == IF b.neg THEN 0 - rb.n ELSE rb.n
             n  == sa * rb.d + sb * ra.d
         IN  IF n = 0 THEN MkF64(ra.n = 0 /\ rb.n = 0 /\ a.neg /\ b.neg, <<>>, FALSE)
             ELSE F64OfRat(n < 0, IF n < 0 THEN 0 - n ELSE n, ra.d * rb.d)

\* a - b
F64Sub(a, b) ==
    IF a.cls = "nan" \/ b.cls = "nan" THEN F64NaN
    ELSE IF F64Unknown(a) \/ F64Unknown(b) THEN F64Expr("sub", <<a, b>>)
    ELSE F64Add(a, F64Negate(b))

\* a * b
F64Mul(a, b) ==
    IF a.cls = "nan" \/ b.cls = "nan" THEN F64NaN
    ELSE IF F64Unknown(a) \/ F64Unknown(b) THEN F64Expr("mul", <<a, b>>)
    ELSE IF a.cls = "inf" \/ b.cls = "inf"
    THEN (IF F64IsZero(a) \/ F64IsZero(b) THEN F64NaN ELSE F64Inf(a.neg # b.neg))
    ELSE LET ra == RatOf(a)
             rb == RatOf(b)
         IN  IF ra.n = 0 \/ rb.n = 0 THEN MkF64(a.neg # b.neg, <<>>, FALSE)
             ELSE F64OfRat(a.neg # b.neg, ra.n * rb.n, ra.d * rb.d)

\* a / b, correctly rounded
F64Div(a, b) ==
    IF a.cls = "nan" \/ b.cls = "nan" THEN F64NaN
    ELSE IF F64Unknown(a) \/ F64Unknown(b) THEN F64Expr("div", <<a, b>>)
    ELSE IF a.cls = "inf"
    THEN (IF b.cls = "inf" THEN F64NaN ELSE F64Inf(a.neg # b.neg))
    ELSE IF b.cls = "inf" THEN MkF64(a.neg # b.neg, <<>>, FALSE)
    ELSE LET ra == RatOf(a)
             rb == RatOf(b)
         IN  IF rb.n = 0 THEN (IF ra.n = 0 THEN F64NaN ELSE F64Inf(a.neg # b.neg))
             ELSE IF ra.n = 0 THEN MkF64(a.neg # b.neg, <<>>, FALSE)
             ELSE F64OfRat(a.neg # b.neg, ra.n * rb.d, ra.d * rb.n)

\* the integer square root, when n is a perfect square
IntSqrt(n) == { r \in 0..128 : r * r = n }

\* x.sqrt(), correctly rounded
F64Sqrt(x) ==
    IF x.cls = "nan" THEN F64NaN
    ELSE IF F64Unknown(x) THEN F64Expr("sqrt", <<x>>)
    ELSE IF F64IsZero(x) THEN x
    ELSE IF x.neg THEN F64NaN
    ELSE IF x.cls = "inf" THEN x
    ELSE LET r == RatOf(x)
             g == Gcd(r.n, r.d)
             n == r.n \div g
             d == r.d \div g
         IN  IF IntSqrt(n) # {} /\ IntSqrt(d) # {}
             THEN F64OfRat(FALSE, CHOOSE s \in IntSqrt(n) : TRUE, CHOOSE s \in IntSqrt(d) : TRUE)
             ELSE F64Expr("sqrt", <<x>>)

\* acc.max(f) and acc.min(f): a NaN operand yields the other operand; of two
\* zeros that differ in sign the first is kept (either gives the same
\* columns below)
F64Max(acc, f) ==
    IF acc.cls = "nan" THEN f
    ELSE IF f.cls = "nan" THEN acc
    ELSE IF F64Unknown(acc) \/ F64Unknown(f) \/ acc.cls = "dy" \/ f.cls = "dy"
    THEN F64Expr("max", <<acc, f>>)
    ELSE IF F64Cmp(acc, f) = "lt" THEN f ELSE acc

F64Min(acc, f) ==
    IF acc.cls = "nan" THEN f
    ELSE IF f.cls = "nan" THEN acc
    ELSE IF F64Unknown(acc) \/ F64Unknown(f) \/ acc.cls = "dy" \/ f.cls = "dy"
    THEN F64Expr("min", <<acc, f>>)
    ELSE IF F64Cmp(acc, f) = "gt" THEN f ELSE acc

\* v.len() as f64
F64OfLen(n) == MkF64(FALSE, IF n = 0 THEN <<>> ELSE <<n>>, FALSE)

\* v.iter().fold(init, |acc, &f| op(acc, f))
RECURSIVE FoldAdd(_, _)
FoldAdd(acc, v) == IF v = <<>> THEN acc ELSE FoldAdd(F64Add(acc, Head(v)), Tail(v))

RECURSIVE FoldMax(_, _)
FoldMax(acc, v) == IF v = <<>> THEN acc ELSE FoldMax(F64Max(acc, Head(v)), Tail(v))

RECURSIVE FoldMin(_, _)
FoldMin(acc, v) == IF v = <<>> THEN acc ELSE FoldMin(F64Min(acc, Head(v)), Tail(v))

RECURSIVE FoldSumSq(_, _, _)
FoldSumSq(acc, v, mu) ==
    IF v = <<>> THEN acc
    ELSE LET x == F64Sub(Head(v), mu)
         IN  FoldSumSq(F64Add(acc, F64Mul(x, x)), Tail(v), mu)

mean(v) == F64Div(FoldAdd(MkF64(FALSE, <<>>, FALSE), v), F64OfLen(Len(v)))

\* None when the assert! fails
variance(v, mu, correction) ==
    IF Len(v) < 2 THEN Some(MkF64(FALSE, <<>>, FALSE))
    ELSE IF correction = F64OfLen(Len(v)) THEN None
    ELSE Some(F64Div(FoldSumSq(MkF64(FALSE, <<>>, FALSE), v, mu),
                     F64Sub(F64OfLen(Len(v)), correction)))

stdev(v, mu, correction) ==
    LET var == variance(v, mu, correction)
    IN  IF var = None THEN None ELSE Some(F64Sqrt(CHOOSE x \in var : TRUE))

----------------------------------------------------------------------------
(* Numeric and hashing transforms, and the dispatch (transform.rs, config.rs) *)

\* VecHashConfig::hash_size
hash_size(config) ==
    IF config.hash_size = None THEN 2^18 ELSE CHOOSE h \in config.hash_size : TRUE

\* The 64-bit values DefaultHasher may finish with.  The source fixes no
\* more than that the hash is a function of the string hashed: a hasher is
\* any function from the strings of the column to these values.
HashValues == { <<>>, <<1>>, NatPow2(I64Bits), U64Max }

Hashers(data_vec) == [ {data_vec[i] : i \in 1..Len(data_vec)} -> HashValues ]

midpoint == NatPow2(I64Bits)

\* a variant that adds 1.0 whatever the hash is
hash_vecs_unsigned(data_vec, size, hasher) ==
    [b \in 1..size |->
        [i \in 1..Len(data_vec) |->
            IF NatQuotRem(hasher[data_vec[i]], size).r # b - 1 THEN MkF64(FALSE, <<>>, FALSE)
            ELSE MkF64(FALSE, <<1>>, FALSE)]]

\* hash_vecs after the loop over the rows, for one hasher
hash_vecs(data_vec, size, hasher) ==
    [b \in 1..size |->
        [i \in 1..Len(data_vec) |->
            LET h == hasher[data_vec[i]]
            IN  IF NatQuotRem(h, size).r # b - 1 THEN MkF64(FALSE, <<>>, FALSE)
                ELSE IF ~NatLess(h, midpoint) THEN MkF64(FALSE, <<1>>, FALSE)
                ELSE MkF64(TRUE, <<1>>, FALSE)]]

\* VecHashConfig::transform_fields; h % 0 panics
vec_hash_transform_fields(config, orig_ds, source_fields, target_name) ==
    LET src == single_source(orig_ds, source_fields, "Text")
    IN  IF src.col = None THEN { src.end }
        ELSE LET data_vec == CHOOSE v \in src.col : TRUE
                 size     == hash_size(config)
             IN  IF size = 0 /\ data_vec # <<>> THEN { Panic }
                 ELSE { merge_floats(empty,
                            [b \in 1..size |-> target_name \o "_" \o Str(FmtNat(
                                                   IF b = 1 THEN <<>> ELSE <<b - 1>>))],
                            hash_vecs(data_vec, size, hasher), 1) :
                          hasher \in Hashers(data_vec) }

\* NormalizeConfig::sample_stdev_correction
sample_stdev_correction(config) ==
    IF config.sample_stdev_correction = None THEN MkF64(FALSE, <<>>, FALSE)
    ELSE CHOOSE c \in config.sample_stdev_correction : TRUE

\* NormalizeConfig::transform_fields
normalize_transform_fields(config, orig_ds, source_fields, target_name) ==
    LET src == single_source(orig_ds, source_fields, "Float")
    IN  IF src.col = None THEN { src.end }
        ELSE LET data_vec == CHOOSE v \in src.col : TRUE
                 mu       == mean(data_vec)
                 sd       == stdev(data_vec, mu, sample_stdev_correction(config))
             IN  IF sd = None THEN { Panic }
                 ELSE { merge_column(empty, target_name, "Float",
                            [i \in 1..Len(data_vec) |->
                                F64Div(F64Sub(data_vec[i], mu), CHOOSE s \in sd : TRUE)]) }

\* ScaleConfig::min_value, max_value and has_custom_minmax
min_value(config) ==
    IF config.min_value = None THEN MkF64(FALSE, <<>>, FALSE)
    ELSE CHOOSE m \in config.min_value : TRUE

max_value(config) ==
    IF config.max_value = None THEN MkF64(FALSE, <<1>>, FALSE)
    ELSE CHOOSE m \in config.max_value : TRUE

has_custom_minmax(config) == config.min_value # None \/ config.max_value # None

\* a variant that takes the configured bounds for the domain of the data
scale_with_configured_domain(config, orig_ds, source_fields, target_name) ==
    LET src == single_source(orig_ds, source_fields, "Float")
    IN  IF src.col = None THEN { src.end }
        ELSE LET data_vec == CHOOSE v \in src.col : TRUE
                 range    == F64Sub(max_value(config), min_value(config))
             IN  { merge_column(empty, target_name, "Float",
                       [i \in 1..Len(data_vec) |->
                           F64Div(F64Sub(data_vec[i], min_value(config)), range)]) }

\* ScaleConfig::transform_fields
scale_transform_fields(config, orig_ds, source_fields, target_name) ==
    LET src == single_source(orig_ds, source_fields, "Float")
    IN  IF src.col = None THEN { src.end }
        ELSE LET data_vec == CHOOSE v \in src.col : TRUE
                 data_max == FoldMax(F64Inf(TRUE), data_vec)
                 data_min == FoldMin(F64Inf(FALSE), data_vec)
                 range    == F64Sub(data_max, data_min)
                 one      == MkF64(FALSE, <<1>>, FALSE)
             IN  { merge_column(empty, target_name, "Float",
                       [i \in 1..Len(data_vec) |->
                           LET alpha == F64Div(F64Sub(data_vec[i], data_min), range)
                           IN  IF has_custom_minmax(config)
                               THEN F64Add(F64Mul(F64Sub(one, alpha), min_value(config)),
                                           F64Mul(alpha, max_value(config)))
                               ELSE alpha]) }

\* TransformMethod::target_type
target_type(method) ==
    IF method.action = "Convert" THEN method.target_type
    ELSE IF method.action \in {"Map", "Concatenate"} THEN "Text"
    ELSE "Float"

\* TransformMethod::transform
method_transform(method, orig_ds, sfs, tn) ==
    CASE method.action = "Convert"         -> transform_fields(method.target_type, orig_ds, sfs, tn)
      [] method.action = "Map"             -> map_transform_fields(method, orig_ds, sfs, tn)
      [] method.action = "Concatenate"     -> concatenate_transform_fields(method, orig_ds, sfs, tn)
      [] method.action = "VectorizeOneHot" -> vec_onehot_transform_fields(method, orig_ds, sfs, tn)
      [] method.action = "VectorizeHash"   -> vec_hash_transform_fields(method, orig_ds, sfs, tn)
      [] method.action = "Normalize"       -> normalize_transform_fields(method, orig_ds, sfs, tn)
      [] method.action = "Scale"           -> scale_transform_fields(method, orig_ds, sfs, tn)

\* check_transform_source: TRUE for Ok(())
RECURSIVE check_transform_source(_, _)
check_transform_source(source_fields, store) ==
    IF source_fields = <<>> THEN TRUE
    ELSE IF Head(source_fields) \notin DOMAIN store.field_map THEN FALSE
    ELSE check_transform_source(Tail(source_fields), store)

\* Transform::source_exists
source_exists(tf, store) == check_transform_source(tf.source_fields, store)

\* Transform::transform
transform(tf, original) ==
    IF ~check_transform_source(tf.source_fields, original) THEN { ConfigError }
    ELSE method_transform(tf.method, original, tf.source_fields, tf.target_name)

\* bound of the model: the rows of the store a transform is given
MaxTfLen == 5

\* the values of the columns a transform is given, in the order the columns
\* take them
TfVals(ty) ==
    CASE ty = "Text"  -> << <<"x">>, <<"y">>, <<"x">>, <<"z">> >>
      [] ty = "Float" -> << MkF64(FALSE, <<1>>, FALSE), MkF64(FALSE, <<2>>, FALSE),
                            MkF64(FALSE, <<3>>, FALSE), MkF64(FALSE, <<4>>, FALSE),
                            MkF64(FALSE, <<5>>, FALSE), MkF64(FALSE, <<2>>, FALSE),
                            MkF64(TRUE, <<2>>, TRUE), F64NaN >>
      [] OTHER        -> ConvVals(ty)

\* up to MaxTfLen successive values, from any start
TfCols(ty) ==
    LET vals == TfVals(ty)
    IN  { [i \in 1..n |-> vals[((k + i - 2) % Len(vals)) + 1]] :
            n \in 0..MaxTfLen, k \in 1..Len(vals) }

\* the transform methods of the model
Methods ==
    { [action |-> "Convert", target_type |-> "Text"],
      [action |-> "Map", default_value |-> <<"0">>, map |-> [k \in {<<"x">>} |-> <<"1">>]],
      [action |-> "Concatenate", separator |-> None],
      [action |-> "Concatenate", separator |-> Some(<<"-">>)],
      [action |-> "VectorizeOneHot", binary_scaling |-> None],
      [action |-> "VectorizeOneHot", binary_scaling |-> Some("ZeroOne")],
      [action |-> "VectorizeOneHot", binary_scaling |-> Some("NegOneOne")],
      [action |-> "VectorizeHash", hash_size |-> Some(0)],
      [action |-> "VectorizeHash", hash_size |-> Some(2)],
      [action |-> "VectorizeHash", hash_size |-> Some(3)],
      [action |-> "Normalize", sample_stdev_correction |-> None],
      [action |-> "Normalize", sample_stdev_correction |-> Some(MkF64(FALSE, <<2>>, FALSE))],
      [action |-> "Scale", min_value |-> None, max_value |-> None],
      [action |-> "Scale", min_value |-> Some(MkF64(FALSE, <<1>>, FALSE)),
                           max_value |-> Some(MkF64(FALSE, <<3>>, FALSE))],
      [action |-> "Scale", min_value |-> Some(MkF64(TRUE, <<1>>, FALSE)), max_value |-> None] }

\* the source fields a transform may name; the store holds no "m"
TfSourceLists == { <<>>, <<"a">>, <<"b">>, <<"a", "b">>, <<"b", "a">>, <<"m">> }

Transforms ==
    { [method |-> m, source_fields |-> sfs, target_name |-> "t"] :
        m \in Methods, sfs \in TfSourceLists }

\* a homogeneous store of two columns: "a" of any type, "b" Text
InitTransform ==
    /\ \E ty \in FieldTypes : \E v \in TfCols(ty) :
          ds = merge_column(merge_column(empty, "a", ty, v).store, "b", "Text",
                            [i \in 1..Len(v) |-> <<"w">>]).store
    /\ log = <<>>
    /\ eng = NoEngine

\* One call of Transform::transform on the store; the store it returns is
\* kept with the call.
TransformStore(tf) ==
    /\ \E r \in transform(tf, ds) :
          log' = Append(log, [op |-> "transform", name |-> tf.target_name,
                              ty |-> target_type(tf.method), arg |-> tf, before |-> ds,
                              ok |-> r.ok, err |-> r.err, out |-> r.store])
    /\ UNCHANGED <<ds, eng>>

NextTransform ==
    /\ log = <<>>
    /\ \E tf \in Transforms : TransformStore(tf)

SpecTransform == InitTransform /\ [][NextTransform]_vars

----------------------------------------------------------------------------
(* Properties of the transforms *)

\* the type each method requires of its source fields
RequiredType(action) ==
    IF action \in {"Map", "Concatenate", "VectorizeOneHot", "VectorizeHash"} THEN "Text"
    ELSE "Float"

\* the declared type of a field of the store the i-th call is given
DeclaredType(i, field) == (CHOOSE fi \in get_fieldinfo(log[i].before, field) : TRUE).ty

\* the i-th call reaches the type check of its method with a source field of
\* another type than the method requires: the call names one source field
\* (any number, at least one, for Concatenate), all sources are fields of the
\* store, and the first source that is checked and fails is of a wrong type
WrongSourceType(i) ==
    LET tf == log[i].arg
    IN  /\ log[i].op = "transform"
        /\ tf.method.action # "Convert"
        /\ IF tf.method.action = "Concatenate" THEN Len(tf.source_fields) >= 1
           ELSE Len(tf.source_fields) = 1
        /\ \A k \in 1..Len(tf.source_fields) :
              get_fieldinfo(log[i].before, tf.source_fields[k]) # None
        /\ \E k \in 1..Len(tf.source_fields) :
              DeclaredType(i, tf.source_fields[k]) # RequiredType(tf.method.action)

\* C18: a method executed on a source field whose declared type is not the
\* type it requires (Text for Map, Concatenate, VectorizeOneHot and
\* VectorizeHash; Float for Normalize and Scale) returns a configuration
\* error and no output column.
C18_WrongSourceTypeIsConfigError ==
    \A i \in 1..Len(log) :
        WrongSourceType(i) =>
            /\ ~log[i].ok
            /\ log[i].err = "DataConfigError"
            /\ log[i].out = empty

\* a Concatenate whose second source is the one of a wrong type is refused
C18_Witness ==
    /\ log # <<>>
    /\ WrongSourceType(1)
    /\ Last.arg.method.action = "Concatenate"
    /\ Last.arg.source_fields = <<"b", "a">>
    /\ DeclaredType(1, "a") = "Float"
    /\ Last.err = "DataConfigError"

\* C19: the methods of one source field (Convert, Map, VectorizeOneHot,
\* VectorizeHash, Normalize, Scale) return a configuration error when they
\* are given no source field or more than one, and so does Concatenate when
\* it is given none: they neither panic nor use the first source alone.
C19_WrongSourceCountIsConfigError ==
    \A i \in 1..Len(log) :
        ( /\ log[i].op = "transform"
          /\ IF log[i].arg.method.action = "Concatenate"
             THEN Len(log[i].arg.source_fields) = 0
             ELSE Len(log[i].arg.source_fields) # 1 )
        => ~log[i].ok /\ log[i].err = "DataConfigError"

\* the i-th call is a one-hot vectorization of one Text source field
OneHotOfText(i) ==
    /\ log[i].op = "transform"
    /\ log[i].arg.method.action = "VectorizeOneHot"
    /\ Len(log[i].arg.source_fields) = 1
    /\ get_fieldinfo(log[i].before, log[i].arg.source_fields[1]) # None
    /\ DeclaredType(i, log[i].arg.source_fields[1]) = "Text"

\* the row at which a value of a column is first seen
FirstSeen(col, val) == CHOOSE r \in 1..Len(col) : col[r] = val /\ \A q \in 1..(r - 1) : col[q] # val

\* the value of a column that is the j-th to be seen
SeenAs(col, j) ==
    CHOOSE val \in {col[r] : r \in 1..Len(col)} :
        Cardinality({w \in {col[r] : r \in 1..Len(col)} : FirstSeen(col, w) < FirstSeen(col, val)}) = j - 1

\* C20: VectorizeOneHot on a Text column of n rows with k distinct values
\* emits exactly k Float columns of length n, named <target>_<value> in the
\* order the values are first seen; in each row the column of the row's value
\* holds 1.0 and every other column the off value, 0.0 for ZeroOne (the
\* default) and -1.0 for NegOneOne.
C20_OneHotColumns ==
    \A i \in 1..Len(log) :
        OneHotOfText(i) =>
            LET col == log[i].before.text[log[i].arg.source_fields[1]]
                k   == Cardinality({col[r] : r \in 1..Len(col)})
                out == log[i].out
                off == IF log[i].arg.method.binary_scaling = Some("NegOneOne")
                       THEN MkF64(TRUE, <<1>>, FALSE) ELSE MkF64(FALSE, <<>>, FALSE)
            IN  /\ log[i].ok
                /\ Len(out.fields) = k
                /\ Columns(out) = { <<"Float", out.fields[j].name>> : j \in 1..k }
                /\ \A j \in 1..k :
                      /\ out.fields[j].name = log[i].name \o "_" \o Str(SeenAs(col, j))
                      /\ out.fields[j].ty = "Float"
                      /\ Len(out.float[out.fields[j].name]) = Len(col)
                      /\ \A r \in 1..Len(col) :
                            out.float[out.fields[j].name][r] =
                                IF col[r] = SeenAs(col, j) THEN MkF64(FALSE, <<1>>, FALSE) ELSE off

\* the column x, y, x under NegOneOne becomes t_x = 1, -1, 1 and t_y = -1, 1, -1
C20_Witness ==
    /\ log # <<>>
    /\ OneHotOfText(1)
    /\ Last.arg.source_fields = <<"a">>
    /\ Last.before.text["a"] = << <<"x">>, <<"y">>, <<"x">> >>
    /\ Last.arg.method.binary_scaling = Some("NegOneOne")
    /\ Last.ok
    /\ [j \in 1..2 |-> Last.out.fields[j].name] = <<"t_x", "t_y">>
    /\ Last.out.float["t_x"] = << MkF64(FALSE, <<1>>, FALSE), MkF64(TRUE, <<1>>, FALSE),
                                  MkF64(FALSE, <<1>>, FALSE) >>
    /\ Last.out.float["t_y"] = << MkF64(TRUE, <<1>>, FALSE), MkF64(FALSE, <<1>>, FALSE),
                                  MkF64(TRUE, <<1>>, FALSE) >>

----------------------------------------------------------------------------
(* Transform engine (spec 4.5) *)

\* The state of a resolution: the raw store, the transformed store built so
\* far, the transform list, the pending indices in list order, the position
\* of the pass in pending, whether the pass has executed a transform, the
\* number of passes begun, the indices executed with the names each
\* generated, and the outcome.
engine_start(raw, transforms) ==
    [status |-> "running", raw |-> raw, tf_data |-> empty, transforms |-> transforms,
     pending |-> [i \in 1..Len(transforms) |-> i], pos |-> 1, progress |-> FALSE,
     passes |-> 1, executed |-> <<>>, generated |-> <<>>, err |-> "", names |-> <<>>]

\* every source_fields name exists in the raw store or the transformed store
sources_ready(e, tf) ==
    \A k \in 1..Len(tf.source_fields) :
        \/ tf.source_fields[k] \in DOMAIN e.raw.field_map
        \/ tf.source_fields[k] \in DOMAIN e.tf_data.field_map

\* the store a ready transform is executed on: the raw store when it holds
\* the sources, the transformed store otherwise
source_store(e, tf) == IF source_exists(tf, e.raw) THEN e.raw ELSE e.tf_data

engine_fail(e, err, names) == [e EXCEPT !.status = "failed", !.err = err, !.names = names]

\* pending without its k-th index
without(pending, k) == SubSeq(pending, 1, k - 1) \o SubSeq(pending, k + 1, Len(pending))

\* a variant that gives up at the end of the first pass that leaves a
\* transform pending
end_of_pass_single(e) ==
    IF e.pending = <<>> THEN [e EXCEPT !.status = "done"]
    ELSE engine_fail(e, "DependencyError",
                     [k \in 1..Len(e.pending) |-> e.transforms[e.pending[k]].target_name])

\* a variant that names in DependencyError every transform of the list
end_of_pass_naming_all(e) ==
    IF e.pending = <<>> THEN [e EXCEPT !.status = "done"]
    ELSE IF ~e.progress
    THEN engine_fail(e, "DependencyError",
                     [k \in 1..Len(e.transforms) |-> e.transforms[k].target_name])
    ELSE [e EXCEPT !.pos = 1, !.progress = FALSE, !.passes = e.passes + 1]

\* a variant that goes over the pending transforms again when a pass has
\* executed nothing
end_of_pass_retrying(e) ==
    IF e.pending = <<>> THEN [e EXCEPT !.status = "done"]
    ELSE IF ~e.progress THEN [e EXCEPT !.pos = 1]
    ELSE [e EXCEPT !.pos = 1, !.progress = FALSE, !.passes = e.passes + 1]

\* a variant that reports success when a pass has executed nothing
end_of_pass_forgiving(e) ==
    IF e.pending = <<>> \/ ~e.progress THEN [e EXCEPT !.status = "done"]
    ELSE [e EXCEPT !.pos = 1, !.progress = FALSE, !.passes = e.passes + 1]

\* the end of a pass: success when nothing is pending, DependencyError naming
\* the pending targets when the pass executed nothing, another pass otherwise
end_of_pass(e) ==
    IF e.pending = <<>> THEN [e EXCEPT !.status = "done"]
    ELSE IF ~e.progress
    THEN engine_fail(e, "DependencyError",
                     [k \in 1..Len(e.pending) |-> e.transforms[e.pending[k]].target_name])
    ELSE [e EXCEPT !.pos = 1, !.progress = FALSE, !.passes = e.passes + 1]

\* the pending transform at pos: executed, merged and recorded when its
\* sources exist, left pending otherwise; an error of the transform or of
\* the merge ends the resolution
visit(e) ==
    LET idx == e.pending[e.pos]
        tf  == e.transforms[idx]
    IN  IF ~sources_ready(e, tf) THEN { [e EXCEPT !.pos = e.pos + 1] }
        ELSE { IF ~r.ok THEN engine_fail(e, r.err, <<>>)
               ELSE LET m == merge(e.tf_data, r.store)
                    IN  IF ~m.ok THEN engine_fail([e EXCEPT !.tf_data = m.store], m.err, <<>>)
                        ELSE [e EXCEPT !.tf_data = m.store,
                                       !.pending = without(e.pending, e.pos),
                                       !.progress = TRUE,
                                       !.executed = Append(e.executed, idx),
                                       !.generated = Append(e.generated,
                                           [j \in 1..Len(r.store.fields) |-> r.store.fields[j].name])] :
                 r \in transform(tf, source_store(e, tf)) }

\* one step of a running resolution
engine_step(e) == IF e.pos > Len(e.pending) THEN { end_of_pass(e) } ELSE visit(e)

\* the outcomes of a resolution run to its end
RECURSIVE run(_)
run(e) == IF e.status # "running" THEN { e } ELSE UNION { run(n) : n \in engine_step(e) }

resolve(raw, transforms) == run(engine_start(raw, transforms))

\* The finalizer (spec 4.6) merges into a new store the columns of the given
\* descriptors of a store, each under the type of its descriptor; the first
\* merge error ends it and no store is returned.
RECURSIVE select_columns(_, _, _)
select_columns(final, names, src) ==
    IF names = <<>> THEN Ok(final)
    ELSE LET finfo == get_fieldinfo(src, Head(names))
         IN  IF finfo = None THEN Err("MissingField", empty)
             ELSE LET r == merge_field(final, Head(names), (CHOOSE fi \in finfo : TRUE).ty, src)
                  IN  IF r.ok THEN select_columns(r.store, Tail(names), src)
                      ELSE Err(r.err, empty)

\* the names of the raw fields whose FieldSpec has add_to_frame = true, in
\* store order
RECURSIVE frame_fields(_, _, _)
frame_fields(raw, kept, i) ==
    IF i > Len(raw.fields) THEN <<>>
    ELSE (IF raw.fields[i].name \in kept THEN <<raw.fields[i].name>> ELSE <<>>)
         \o frame_fields(raw, kept, i + 1)

\* the names generated by the transforms whose TransformSpec has
\* add_to_frame = true, in the order the transforms were executed
RECURSIVE frame_generated(_, _, _)
frame_generated(e, kept, k) ==
    IF k > Len(e.executed) THEN <<>>
    ELSE (IF e.executed[k] \in kept THEN e.generated[k] ELSE <<>>)
         \o frame_generated(e, kept, k + 1)

\* finalization of a successful resolution: the selected raw fields, then
\* the selected generated columns
finalize(e, kept_fields, kept_transforms) ==
    LET r == select_columns(empty, frame_fields(e.raw, kept_fields, 1), e.raw)
    IN  IF ~r.ok THEN r
        ELSE select_columns(r.store, frame_generated(e, kept_transforms, 1), e.tf_data)

\* bound of the model: the length of the transform list
MaxTransforms == 3

ConvertTo(source, target, ty) ==
    [method |-> [action |-> "Convert", target_type |-> ty],
     source_fields |-> <<source>>, target_name |-> target]

\* The transforms of the model: a chain of three hops from the raw field a,
\* a transform of a source nothing generates and one that depends on it, a
\* cycle of two, a second transform that generates s, one that fails when it
\* is executed (a is not Float), and two whose targets are names of raw
\* fields, one of the type of that field and one of another type.
TransformPool ==
    { ConvertTo("a", "a", "Unsigned"), ConvertTo("a", "b", "Signed"),
      ConvertTo("a", "u", "Signed"), ConvertTo("u", "s", "Text"), ConvertTo("s", "w", "Float"),
      ConvertTo("z", "v", "Text"), ConvertTo("v", "y", "Text"),
      ConvertTo("p", "q", "Text"), ConvertTo("q", "p", "Text"),
      [method |-> [action |-> "Map", default_value |-> <<"0">>,
                   map |-> [k \in {<<"x">>} |-> <<"1">>]],
       source_fields |-> <<"b">>, target_name |-> "s"],
      [method |-> [action |-> "Normalize", sample_stdev_correction |-> None],
       source_fields |-> <<"a">>, target_name |-> "n"] }

\* the lists of distinct transforms of the pool, in every order
TransformLists ==
    UNION { { l \in [1..n -> TransformPool] : \A i, j \in 1..n : l[i] = l[j] => i = j } :
            n \in 0..MaxTransforms }

\* the raw store: a of type Unsigned and b of type Text
InitResolve ==
    /\ ds = merge_column(merge_column(empty, "a", "Unsigned", << <<7>>, <<>> >>).store,
                         "b", "Text", << <<"7">>, <<"x">> >>).store
    /\ log = <<>>
    /\ eng = NoEngine

StartResolve(transforms) ==
    /\ eng' = engine_start(ds, transforms)
    /\ UNCHANGED <<ds, log>>

ResolveStep ==
    /\ eng.status = "running"
    /\ eng' \in engine_step(eng)
    /\ UNCHANGED <<ds, log>>

\* The finalizer runs once on a successful resolution.  add_to_frame is read
\* by the finalizer alone, so the flags of the configuration are drawn here:
\* the raw fields and the transforms that have add_to_frame = true.
Finalize(kept_fields, kept_transforms) ==
    /\ eng # NoEngine
    /\ eng.status = "done"
    /\ log = <<>>
    /\ LET r == finalize(eng, kept_fields, kept_transforms)
       IN  log' = <<[op |-> "finalize", name |-> "", ty |-> "",
                    arg |-> [fields |-> kept_fields, transforms |-> kept_transforms],
                    before |-> ds, ok |-> r.ok, err |-> r.err, out |-> r.store]>>
    /\ UNCHANGED <<ds, eng>>

NextResolve ==
    \/ /\ eng = NoEngine
       /\ \E transforms \in TransformLists : StartResolve(transforms)
    \/ ResolveStep
    \/ /\ eng # NoEngine
       /\ \E kept_fields \in SUBSET (DOMAIN ds.field_map) :
          \E kept_transforms \in SUBSET (1..Len(eng.transforms)) :
             Finalize(kept_fields, kept_transforms)

SpecResolve == InitResolve /\ [][NextResolve]_vars

\* a transform that copies one Text column
CopyTo(source, target) ==
    [method |-> [action |-> "Concatenate", separator |-> None],
     source_fields |-> <<source>>, target_name |-> target]

\* The lists on which the termination of a resolution is checked: a chain of
\* three hops from the raw field b, a missing source, a cycle of two and a
\* transform that fails when it is executed, in every order.
TerminationPool ==
    { CopyTo("b", "u"), CopyTo("u", "s"), CopyTo("s", "w"),
      CopyTo("z", "v"), CopyTo("p", "q"), CopyTo("q", "p"),
      [method |-> [action |-> "Normalize", sample_stdev_correction |-> None],
       source_fields |-> <<"a">>, target_name |-> "n"] }

TerminationLists ==
    UNION { { l \in [1..n -> TerminationPool] : \A i, j \in 1..n : l[i] = l[j] => i = j } :
            n \in 0..MaxTransforms }

NextTerminate ==
    \/ /\ eng = NoEngine
       /\ \E transforms \in TerminationLists : StartResolve(transforms)
    \/ ResolveStep

\* The resolution is a sequential loop: a running resolution takes its next
\* step.
SpecResolveFair == InitResolve /\ [][NextTerminate]_vars /\ WF_vars(ResolveStep)

----------------------------------------------------------------------------
(* Properties of the transform engine *)

\* the names that can come to exist: those of the raw store and, round after
\* round, the targets of the transforms whose sources can all come to exist
RECURSIVE Available(_, _, _)
Available(names, transforms, rounds) ==
    IF rounds = 0 THEN names
    ELSE Available(names \cup { transforms[i].target_name : i \in
                       { i \in 1..Len(transforms) :
                           \A k \in 1..Len(transforms[i].source_fields) :
                               transforms[i].source_fields[k] \in names } },
                   transforms, rounds - 1)

\* the transforms of a list one of whose sources can never come to exist: a
\* source that nothing generates, a cycle, or a dependency on either
Stuck(raw, transforms) ==
    { i \in 1..Len(transforms) :
        \E k \in 1..Len(transforms[i].source_fields) :
            transforms[i].source_fields[k] \notin
                Available(DOMAIN raw.field_map, transforms, Len(transforms)) }

\* every source field is in the raw store or generated, without cycles, by
\* another transform of the list
Resolvable(raw, transforms) == Stuck(raw, transforms) = {}

DistinctTargets(transforms) ==
    \A i, j \in 1..Len(transforms) :
        transforms[i].target_name = transforms[j].target_name => i = j

\* the orders of a list
Orders(transforms) ==
    { [i \in 1..Len(transforms) |-> transforms[p[i]]] :
        p \in { q \in [1..Len(transforms) -> 1..Len(transforms)] :
                  \A i, j \in 1..Len(transforms) : q[i] = q[j] => i = j } }

\* two stores hold the same columns: the same names, types and values
SameColumns(s1, s2) ==
    /\ \A ty \in FieldTypes : Bucket(s1, ty) = Bucket(s2, ty)
    /\ { <<s1.fields[i].name, s1.fields[i].ty>> : i \in 1..Len(s1.fields) }
         = { <<s2.fields[i].name, s2.fields[i].ty>> : i \in 1..Len(s2.fields) }

Finished == eng # NoEngine /\ eng.status # "running"

\* a finished resolution before the finalizer, which leaves the engine as it is
Resolved == Finished /\ log = <<>>

\* C16 as stated: for any list in which every source field is in the raw
\* store or generated, without cycles, by another transform of the list,
\* every order of the list resolves successfully and yields the same
\* transformed columns with the same values.
C16_EveryOrderResolves ==
    (IF Resolved THEN Resolvable(eng.raw, eng.transforms) ELSE FALSE) =>
        /\ eng.status = "done"
        /\ \A l \in Orders(eng.transforms) : \A f \in resolve(eng.raw, l) :
              f.status = "done" /\ SameColumns(f.tf_data, eng.tf_data)

\* C16, amended: for any list of transforms with pairwise distinct target
\* names in which every source field is in the raw store or generated,
\* without cycles, by another transform of the list, no order of the list
\* ends in DependencyError and all orders end alike: when one resolves
\* successfully every one does, with the same transformed columns and
\* values, and when a transform fails at execution every order fails.
C16_OrdersEndAlike ==
    (IF Resolved THEN Resolvable(eng.raw, eng.transforms) /\ DistinctTargets(eng.transforms)
     ELSE FALSE) =>
        /\ eng.err # "DependencyError"
        /\ \A l \in Orders(eng.transforms) : \A f \in resolve(eng.raw, l) :
              /\ f.status = eng.status
              /\ eng.status = "done" => SameColumns(f.tf_data, eng.tf_data)

\* the chain a -> u -> s -> w, listed last hop first, is resolved in three
\* passes
C16_Witness ==
    /\ Finished
    /\ eng.status = "done"
    /\ [i \in 1..Len(eng.transforms) |-> eng.transforms[i].target_name] = <<"w", "s", "u">>
    /\ eng.executed = <<3, 2, 1>>
    /\ eng.passes = 3
    /\ "w" \in DOMAIN eng.tf_data.float

\* C17: resolution fails with DependencyError exactly when a full pass has
\* executed no transform while transforms are pending; the error names, by
\* their targets, the transforms still pending, which are those with a
\* source that nothing generates, those of a cycle and those that depend on
\* either, and none that was executed.
C17_DependencyErrorNamesPending ==
    Finished =>
        /\ eng.err = "DependencyError"
             <=> /\ eng.status = "failed"
                 /\ eng.pos > Len(eng.pending)
                 /\ ~eng.progress
                 /\ eng.pending # <<>>
        /\ eng.err = "DependencyError" =>
             LET stuck == Stuck(eng.raw, eng.transforms)
             IN  /\ Len(eng.names) = Cardinality(stuck)
                 /\ \A k \in 1..Len(eng.names) :
                       /\ eng.pending[k] \in stuck
                       /\ eng.names[k] = eng.transforms[eng.pending[k]].target_name
                 /\ { eng.pending[k] : k \in 1..Len(eng.pending) } = stuck
                 /\ { eng.executed[k] : k \in 1..Len(eng.executed) }
                      = (1..Len(eng.transforms)) \ stuck
        /\ (eng.status = "done" => Stuck(eng.raw, eng.transforms) = {})

\* a missing source and its dependent are named, the transform that was
\* executed is not
C17_Witness ==
    /\ Finished
    /\ eng.err = "DependencyError"
    /\ eng.names = <<"v", "y">>
    /\ eng.executed = <<3>>
    /\ eng.transforms[3].target_name = "u"

----------------------------------------------------------------------------
(* Properties of the hashing, joining and scaling transforms *)

\* the i-th call is the given transform of one source field that the store
\* declares with the given type
OneSourceCall(i, action, ty) ==
    /\ log[i].op = "transform"
    /\ log[i].arg.method.action = action
    /\ Len(log[i].arg.source_fields) = 1
    /\ get_fieldinfo(log[i].before, log[i].arg.source_fields[1]) # None
    /\ DeclaredType(i, log[i].arg.source_fields[1]) = ty

\* the decimal name of a bucket
BucketName(target, b) == target \o "_" \o Str(FmtNat(IF b = 0 THEN <<>> ELSE <<b>>))

\* C21: VectorizeHash with hash_size h >= 1 on a Text column of n rows emits
\* exactly h Float columns of length n named <target>_0 .. <target>_(h-1);
\* there is a 64-bit hash of the values such that in every row the column
\* hash(value) mod h holds +1 if hash(value) >= 2^63 and -1 otherwise, and
\* every other column holds 0.  The hash being a function of the value, equal
\* values land in the same bucket with the same sign.
C21_HashColumns ==
    \A i \in 1..Len(log) :
        (OneSourceCall(i, "VectorizeHash", "Text") /\ hash_size(log[i].arg.method) >= 1) =>
            LET col == log[i].before.text[log[i].arg.source_fields[1]]
                h   == hash_size(log[i].arg.method)
                out == log[i].out
            IN  /\ log[i].ok
                /\ Len(out.fields) = h
                /\ Columns(out) = { <<"Float", BucketName(log[i].name, b)>> : b \in 0..(h - 1) }
                /\ \A b \in 0..(h - 1) :
                      /\ out.fields[b + 1].name = BucketName(log[i].name, b)
                      /\ out.fields[b + 1].ty = "Float"
                      /\ Len(out.float[BucketName(log[i].name, b)]) = Len(col)
                /\ \E hash \in Hashers(col) :
                      \A b \in 0..(h - 1) : \A r \in 1..Len(col) :
                          out.float[BucketName(log[i].name, b)][r] =
                              IF NatQuotRem(hash[col[r]], h).r # b
                              THEN MkF64(FALSE, <<>>, FALSE)
                              ELSE IF NatLess(hash[col[r]], NatPow2(63))
                                   THEN MkF64(TRUE, <<1>>, FALSE)
                                   ELSE MkF64(FALSE, <<1>>, FALSE)
                /\ \A r1, r2 \in 1..Len(col) :
                      col[r1] = col[r2] =>
                          \A b \in 0..(h - 1) :
                              out.float[BucketName(log[i].name, b)][r1] =
                                  out.float[BucketName(log[i].name, b)][r2]

\* the column x, y, x hashed into three buckets with hash(x) = 2^63 and
\* hash(y) = 1: x lands in bucket 2 with +1, y in bucket 1 with -1
C21_Witness ==
    /\ log # <<>>
    /\ OneSourceCall(1, "VectorizeHash", "Text")
    /\ Last.arg.source_fields = <<"a">>
    /\ Last.before.text["a"] = << <<"x">>, <<"y">>, <<"x">> >>
    /\ hash_size(Last.arg.method) = 3
    /\ Last.ok
    /\ [b \in 1..3 |-> Last.out.fields[b].name] = <<"t_0", "t_1", "t_2">>
    /\ Last.out.float["t_0"] = [r \in 1..3 |-> MkF64(FALSE, <<>>, FALSE)]
    /\ Last.out.float["t_1"] = << MkF64(FALSE, <<>>, FALSE), MkF64(TRUE, <<1>>, FALSE),
                                  MkF64(FALSE, <<>>, FALSE) >>
    /\ Last.out.float["t_2"] = << MkF64(FALSE, <<1>>, FALSE), MkF64(FALSE, <<>>, FALSE),
                                  MkF64(FALSE, <<1>>, FALSE) >>

\* the i-th call is a concatenation of one or more Text fields of a
\* homogeneous store
ConcatenateOfText(i) ==
    /\ log[i].op = "transform"
    /\ log[i].arg.method.action = "Concatenate"
    /\ Len(log[i].arg.source_fields) >= 1
    /\ is_homogeneous(log[i].before)
    /\ \A k \in 1..Len(log[i].arg.source_fields) :
          /\ get_fieldinfo(log[i].before, log[i].arg.source_fields[k]) # None
          /\ DeclaredType(i, log[i].arg.source_fields[k]) = "Text"

\* s1[j] + sep + ... + sep + sm[j], built from the last field backwards
RECURSIVE Joined(_, _, _, _)
Joined(store, names, sep, j) ==
    IF Len(names) = 1 THEN store.text[names[1]][j]
    ELSE Joined(store, SubSeq(names, 1, Len(names) - 1), sep, j)
             \o sep \o store.text[names[Len(names)]][j]

\* C22: Concatenate over source Text columns s1..sm (m >= 1) of a
\* homogeneous store with n rows emits one Text column of length n whose row
\* j is s1[j] + sep + s2[j] + ... + sep + sm[j], with sep the configured
\* separator or the empty string by default; with m = 1 the output is s1.
C22_ConcatenateJoinsRows ==
    \A i \in 1..Len(log) :
        ConcatenateOfText(i) =>
            LET names == log[i].arg.source_fields
                sep   == IF log[i].arg.method.separator = None THEN <<>>
                         ELSE CHOOSE x \in log[i].arg.method.separator : TRUE
                out   == log[i].out
            IN  /\ log[i].ok
                /\ Len(out.fields) = 1
                /\ out.fields[1].name = log[i].name
                /\ out.fields[1].ty = "Text"
                /\ Columns(out) = { <<"Text", log[i].name>> }
                /\ Len(out.text[log[i].name]) = nrows(log[i].before)
                /\ \A j \in 1..nrows(log[i].before) :
                      out.text[log[i].name][j] = Joined(log[i].before, names, sep, j)
                /\ Len(names) = 1 => out.text[log[i].name] = log[i].before.text[names[1]]

\* a = x, y, x and b = w, w, w joined with "-" give x-w, y-w, x-w
C22_Witness ==
    /\ log # <<>>
    /\ ConcatenateOfText(1)
    /\ Last.arg.source_fields = <<"a", "b">>
    /\ Last.arg.method.separator = Some(<<"-">>)
    /\ Last.before.text["a"] = << <<"x">>, <<"y">>, <<"x">> >>
    /\ Last.ok
    /\ Last.out.text["t"] = << <<"x", "-", "w">>, <<"y", "-", "w">>, <<"x", "-", "w">> >>

\* a finite multiple of one half, counted in halves
Halves(x) == (IF x.neg THEN 0 - 1 ELSE 1) * RatOf(x).n

\* the f64 of a number of halves
OfHalves(h) ==
    LET a == IF h < 0 THEN 0 - h ELSE h
    IN  MkF64(h < 0, IF a \div 2 = 0 THEN <<>> ELSE <<a \div 2>>, a % 2 = 1)

\* the values of a column that are numbers
Numbers(col) == { col[r] : r \in { q \in 1..Len(col) : col[q].cls # "nan" } }

\* the observed minimum and maximum of a column, both in a set of at most one
Lowest(col)  == { v \in Numbers(col) : \A w \in Numbers(col) : Halves(v) <= Halves(w) }
Highest(col) == { v \in Numbers(col) : \A w \in Numbers(col) : Halves(v) >= Halves(w) }

\* the i-th call scales a Float column whose minimum is below its maximum
ScaleOfRange(i) ==
    /\ OneSourceCall(i, "Scale", "Float")
    /\ LET col == log[i].before.float[log[i].arg.source_fields[1]]
       IN  \E lo \in Lowest(col) : \E hi \in Highest(col) : Halves(lo) < Halves(hi)

\* the value a cell stands for, or the value it is the nearest f64 to, as a
\* signed numerator and a denominator
Real(x) ==
    IF x.cls = "quot" THEN [n |-> (IF x.neg THEN 0 - 1 ELSE 1) * x.num, d |-> x.den]
    ELSE [n |-> Halves(x), d |-> RatOf(x).d]

\* C23: Scale maps a Float column with observed minimum lo and maximum hi
\* (lo < hi) so that each x becomes L + (x - lo)/(hi - lo) * (U - L), where
\* [L, U] is [0, 1] when neither bound is configured and [min_value or 0,
\* max_value or 1] otherwise; the domain is the data's own [lo, hi], so lo
\* maps to L and hi to U.  The output is that value wherever it is an f64,
\* and the f64 nearest to it for the default bounds.
C23_ScaleMapsRangeToBounds ==
    \A i \in 1..Len(log) :
        ScaleOfRange(i) =>
            LET col == log[i].before.float[log[i].arg.source_fields[1]]
                m   == log[i].arg.method
                lo  == Halves(CHOOSE v \in Lowest(col) : TRUE)
                hi  == Halves(CHOOSE v \in Highest(col) : TRUE)
                L   == IF m.min_value = None THEN 0 ELSE Halves(CHOOSE v \in m.min_value : TRUE)
                U   == IF m.max_value = None THEN 2 ELSE Halves(CHOOSE v \in m.max_value : TRUE)
                out == log[i].out
            IN  /\ log[i].ok
                /\ Len(out.fields) = 1
                /\ out.fields[1].name = log[i].name
                /\ out.fields[1].ty = "Float"
                /\ Columns(out) = { <<"Float", log[i].name>> }
                /\ Len(out.float[log[i].name]) = Len(col)
                /\ \A r \in 1..Len(col) :
                      LET y == out.float[log[i].name][r]
                      IN  IF col[r].cls = "nan" THEN y.cls = "nan"
                          ELSE LET x == Halves(col[r])
                               IN  /\ y.cls \in {"fin", "dy", "quot"} =>
                                        Real(y).n * 2 * (hi - lo) =
                                            Real(y).d * (L * (hi - lo) + (x - lo) * (U - L))
                                   /\ y.cls \notin {"fin", "dy", "quot"} =>
                                        /\ y.cls = "expr"
                                        /\ m.min_value # None \/ m.max_value # None
                                        /\ ~IsPow2((hi - lo) \div Gcd(x - lo, hi - lo))
                                   /\ x = lo => y = OfHalves(L)
                                   /\ x = hi => y = OfHalves(U)

\* the column 1, 2, 3, 4, 5 with the default bounds becomes 0, 0.25, 0.5,
\* 0.75, 1
C23_Witness ==
    /\ log # <<>>
    /\ ScaleOfRange(1)
    /\ Last.arg.source_fields = <<"a">>
    /\ Last.arg.method.min_value = None /\ Last.arg.method.max_value = None
    /\ Last.before.float["a"] = [r \in 1..5 |-> MkF64(FALSE, <<r>>, FALSE)]
    /\ Last.ok
    /\ Last.out.float["t"] = << MkF64(FALSE, <<>>, FALSE), F64Dy(FALSE, 1, 4),
                                MkF64(FALSE, <<>>, TRUE), F64Dy(FALSE, 3, 4),
                                MkF64(FALSE, <<1>>, FALSE) >>

----------------------------------------------------------------------------
(* Frame accessors (dataframe.rs; sub from spec 4.6) *)

\* the cast of one column of as_matrix
as_f64(ty, v) ==
    CASE ty = "Unsigned" -> [i \in 1..Len(v) |-> unsigned_to_float(v[i])]
      [] ty = "Signed"   -> [i \in 1..Len(v) |-> signed_to_float(v[i])]
      [] ty = "Boolean"  -> [i \in 1..Len(v) |-> boolean_to_float(v[i])]
      [] ty = "Float"    -> v

\* the loop of as_matrix from the i-th descriptor on: the names pushed, the
\* values appended, and whether an expect("datastore inconsistent") met None
RECURSIVE matrix_columns(_, _)
matrix_columns(s, i) ==
    IF i > Len(s.fields) THEN [fieldnames |-> <<>>, data_vec |-> <<>>, panic |-> FALSE]
    ELSE LET f    == s.fields[i]
             rest == matrix_columns(s, i + 1)
         IN  IF f.ty = "Text" THEN rest
             ELSE IF f.name \notin DOMAIN Bucket(s, f.ty)
             THEN [fieldnames |-> <<>>, data_vec |-> <<>>, panic |-> TRUE]
             ELSE [fieldnames |-> <<f.name>> \o rest.fieldnames,
                   data_vec   |-> as_f64(f.ty, Bucket(s, f.ty)[f.name]) \o rest.data_vec,
                   panic      |-> rest.panic]

MatrixOk(fieldnames, mat) ==
    [ok |-> TRUE, err |-> "", fieldnames |-> fieldnames, mat |-> mat]
MatrixErr(e) ==
    [ok |-> FALSE, err |-> e, fieldnames |-> <<>>,
     mat |-> [nrows |-> 0, ncols |-> 0, data |-> <<>>]]

\* Matrix::from_vec(data, nrows, ncols) of the matrix crate: the matrix of
\* the given shape, and possibly a panic when the data are not nrows * ncols
\* values
from_vec(fieldnames, data, rows, cols) ==
    { MatrixOk(fieldnames, [nrows |-> rows, ncols |-> cols, data |-> data]) }
        \cup (IF Len(data) = rows * cols THEN {} ELSE { MatrixErr("panic") })

\* DataFrame::as_matrix: the matrix is given self.data.fields.len() columns
as_matrix(s) ==
    IF ~is_homogeneous(s) THEN { MatrixErr("DataFrameError") }
    ELSE LET c == matrix_columns(s, 1)
         IN  IF c.panic THEN { MatrixErr("panic") }
             ELSE from_vec(c.fieldnames, c.data_vec, nrows(s), Len(s.fields))

\* a variant of sub that copies every field up to the last one requested
RECURSIVE sub_prefix(_, _, _)
sub_prefix(acc, s, names) ==
    IF names = <<>> THEN Ok(acc)
    ELSE LET finfo == get_fieldinfo(s, names[Len(names)])
         IN  IF finfo = None THEN Err("MissingField", empty)
             ELSE merge_from(acc, [s EXCEPT !.fields =
                                SubSeq(@, 1, (CHOOSE fi \in finfo : TRUE).index + 1)], 1)

\* sub(names): a new store of the named columns, each merged under the type
\* of its descriptor; an unknown name is an error and no store is returned
RECURSIVE sub(_, _, _)
sub(acc, s, names) ==
    IF names = <<>> THEN Ok(acc)
    ELSE LET finfo == get_fieldinfo(s, Head(names))
         IN  IF finfo = None THEN Err("MissingField", empty)
             ELSE LET r == merge_field(acc, Head(names), (CHOOSE fi \in finfo : TRUE).ty, s)
                  IN  IF r.ok THEN sub(r.store, s, Tail(names))
                      ELSE Err(r.err, empty)

\* the stores a frame may hold: nothing, one column, or two columns merged
\* one after the other, of any types and lengths, the second name possibly
\* the first again
FrameStores ==
    LET one == { merge_column(empty, "a", ty, SampleCol(ty, len)).store :
                    ty \in FieldTypes, len \in 0..MaxColLen }
    IN  {empty} \cup one
        \cup { merge_column(s, name, ty, SampleCol(ty, len)).store :
                 s \in one, name \in Names, ty \in FieldTypes, len \in 0..MaxColLen }

\* the lists of names sub is called with; no store holds "m"
SubLists == { <<>>, <<"a">>, <<"b">>, <<"a", "b">>, <<"b", "a">>, <<"m">>, <<"a", "m">> }

InitFrame ==
    /\ ds \in FrameStores
    /\ log = <<>>
    /\ eng = NoEngine

AsMatrix ==
    /\ \E r \in as_matrix(ds) :
          log' = Append(log, [op |-> "as_matrix", name |-> "", ty |-> "", arg |-> <<>>,
                              before |-> ds, ok |-> r.ok, err |-> r.err,
                              fieldnames |-> r.fieldnames, mat |-> r.mat])
    /\ UNCHANGED <<ds, eng>>

Sub(names) ==
    /\ LET r == sub(empty, ds, names)
       IN  log' = Append(log, [op |-> "sub", name |-> "", ty |-> "", arg |-> names,
                               before |-> ds, ok |-> r.ok, err |-> r.err, out |-> r.store])
    /\ UNCHANGED <<ds, eng>>

NextFrame ==
    /\ log = <<>>
    /\ \/ AsMatrix
       \/ \E names \in SubLists : Sub(names)

SpecFrame == InitFrame /\ [][NextFrame]_vars

----------------------------------------------------------------------------
(* Properties of the frame accessors *)

\* the names of the non-Text fields, in store order
RECURSIVE NumericNames(_)
NumericNames(fields) ==
    IF fields = <<>> THEN <<>>
    ELSE NumericNames(SubSeq(fields, 1, Len(fields) - 1))
         \o (IF fields[Len(fields)].ty = "Text" THEN <<>> ELSE <<fields[Len(fields)].name>>)

\* C24: as_matrix() on a homogeneous store returns a field-name list holding
\* exactly the names of the non-Text fields in store order, and a matrix
\* with as many columns as that list has names and row_count() rows, also
\* when the store holds Text fields; on a non-homogeneous store it returns
\* an error.
C24_MatrixShapeMatchesNames ==
    \A i \in 1..Len(log) :
        log[i].op = "as_matrix" =>
            IF is_homogeneous(log[i].before)
            THEN /\ log[i].ok
                 /\ log[i].fieldnames = NumericNames(log[i].before.fields)
                 /\ log[i].mat.ncols = Len(log[i].fieldnames)
                 /\ log[i].mat.nrows = nrows(log[i].before)
            ELSE ~log[i].ok /\ log[i].err = "DataFrameError"

\* every name the i-th call requests is a field of the store
AllRequestedExist(i) ==
    \A k \in 1..Len(log[i].arg) : get_fieldinfo(log[i].before, log[i].arg[k]) # None

\* the store returned by the i-th call has exactly the requested fields, each
\* with the type and the values it has in the original
Projected(i) ==
    LET out == log[i].out
        req == { log[i].arg[k] : k \in 1..Len(log[i].arg) }
    IN  /\ { out.fields[j].name : j \in 1..Len(out.fields) } = req
        /\ Len(out.fields) = Cardinality(req)
        /\ Columns(out) = { <<DeclaredType(i, n), n>> : n \in req }
        /\ \A j \in 1..Len(out.fields) :
              /\ out.fields[j].ty = DeclaredType(i, out.fields[j].name)
              /\ Bucket(out, out.fields[j].ty)[out.fields[j].name]
                    = Bucket(log[i].before, out.fields[j].ty)[out.fields[j].name]

----------------------------------------------------------------------------
(* Properties of the finalizer and of a resolution as a whole *)

Finalized == log # <<>> /\ log[1].op = "finalize"

\* the generated columns selected by a finalization, as the position of the
\* transform in the order of execution and of the name among its names
SelectedGenerated ==
    UNION { { <<k, j>> : j \in 1..Len(eng.generated[k]) } :
              k \in { x \in 1..Len(eng.executed) : eng.executed[x] \in log[1].arg.transforms } }

GeneratedName(p) == eng.generated[p[1]][p[2]]

\* two selected columns share a destination name
SelectionCollides ==
    \/ \E p \in SelectedGenerated : GeneratedName(p) \in log[1].arg.fields
    \/ \E p, q \in SelectedGenerated : p # q /\ GeneratedName(p) = GeneratedName(q)

\* C26: the final store contains exactly the raw fields whose FieldSpec has
\* add_to_frame = true plus every generated column of each TransformSpec
\* with add_to_frame = true, and nothing else; if two selected columns share
\* a destination name, finalization fails with a merge error instead of
\* producing a store.
C26_FinalStoreIsSelection ==
    Finalized =>
        IF SelectionCollides
        THEN ~log[1].ok /\ log[1].err = "DuplicateField" /\ log[1].out = empty
        ELSE LET out == log[1].out
                 gen == { GeneratedName(p) : p \in SelectedGenerated }
             IN  /\ log[1].ok
                 /\ { out.fields[j].name : j \in 1..Len(out.fields) } = log[1].arg.fields \cup gen
                 /\ Len(out.fields) = Cardinality(log[1].arg.fields \cup gen)
                 /\ Cardinality(Columns(out)) = Len(out.fields)
                 /\ \A j \in 1..Len(out.fields) :
                       LET n   == out.fields[j].name
                           src == IF n \in log[1].arg.fields THEN eng.raw ELSE eng.tf_data
                           ty  == (CHOOSE fi \in get_fieldinfo(src, n) : TRUE).ty
                       IN  /\ out.fields[j].ty = ty
                           /\ n \in DOMAIN Bucket(out, ty)
                           /\ Bucket(out, ty)[n] = Bucket(src, ty)[n]

Started == eng # NoEngine

\* the indices a resolution has executed
Executed == { eng.executed[k] : k \in 1..Len(eng.executed) }

\* every pass before the current one has removed a transform from pending,
\* what is removed is what was executed, and a pass that ends the resolution
\* without having removed one ends it with DependencyError
PassesRemove ==
    /\ Len(eng.executed) >= eng.passes - 1
    /\ Len(eng.pending) + Len(eng.executed) = Len(eng.transforms)
    /\ (eng.status = "failed" /\ eng.pos > Len(eng.pending) /\ ~eng.progress)
          => eng.err = "DependencyError"
    /\ eng.status = "done" => eng.pending = <<>>

\* C27: transform resolution terminates for every transform list and raw
\* store: every pass that runs to its end removes at least one transform from
\* pending or ends the resolution with DependencyError, so the run ends, in
\* success with nothing pending or in failure, after at most as many passes
\* as there are transforms plus one.
C27_ResolutionTerminates ==
    /\ [](Started => PassesRemove /\ eng.passes <= Len(eng.transforms) + 1)
    /\ (Started /\ eng.status = "running") ~> (Started /\ eng.status \in {"done", "failed"})

\* a cycle listed before a transform of the raw field a: the first pass
\* executes the third transform, the second pass nothing
C27_Witness ==
    /\ Started
    /\ eng.status = "failed"
    /\ eng.err = "DependencyError"
    /\ Len(eng.transforms) = 3
    /\ eng.passes = 2
    /\ eng.executed = <<3>>
    /\ eng.pending = <<1, 2>>
    /\ eng.names = <<"q", "p">>

\* C28: a transform is executed only in a state where every one of its
\* source_fields names exists in the raw store or in the transformed store
\* built so far, and no transform is executed more than once; when the
\* resolution succeeds every transform of the list has been executed exactly
\* once and the names of its generated columns have been recorded.
C28_ExecutedOnceWhenReady ==
    /\ [][(Started /\ eng.status = "running" /\ eng'.executed # eng.executed) =>
            LET idx == eng'.executed[Len(eng'.executed)]
            IN  /\ eng'.executed = Append(eng.executed, idx)
                /\ idx \in 1..Len(eng.transforms)
                /\ idx \notin Executed
                /\ \A k \in 1..Len(eng.transforms[idx].source_fields) :
                      eng.transforms[idx].source_fields[k] \in
                          (DOMAIN eng.raw.field_map) \cup (DOMAIN eng.tf_data.field_map)
                /\ eng'.generated = Append(eng.generated, eng'.generated[Len(eng'.generated)])
                /\ LET names == { eng'.generated[Len(eng'.generated)][j] :
                                     j \in 1..Len(eng'.generated[Len(eng'.generated)]) }
                   IN  /\ names \subseteq DOMAIN eng'.tf_data.field_map
                       /\ (DOMAIN eng'.tf_data.field_map) \ (DOMAIN eng.tf_data.field_map)
                             \subseteq names]_vars
    /\ [](Started =>
            /\ Cardinality(Executed) = Len(eng.executed)
            /\ Len(eng.generated) = Len(eng.executed)
            /\ eng.status = "done" =>
                  /\ Executed = 1..Len(eng.transforms)
                  /\ UNION { { eng.generated[k][j] : j \in 1..Len(eng.generated[k]) } :
                               k \in 1..Len(eng.generated) } = DOMAIN eng.tf_data.field_map)

\* the chain a -> u -> s listed last hop first: u -> s is executed in the
\* second pass, when the first has generated u
C28_Witness ==
    /\ Started
    /\ eng.status = "done"
    /\ [k \in 1..Len(eng.transforms) |-> eng.transforms[k].target_name] = <<"s", "u">>
    /\ eng.executed = <<2, 1>>
    /\ eng.generated = << <<"u">>, <<"s">> >>
    /\ eng.passes = 2

----------------------------------------------------------------------------
(* Properties of the store, continued *)

\* C29: a merge_column call that returns the duplicate-field error leaves
\* the destination store unchanged: the column already stored under that
\* name keeps its previous values and length, and the field list is
\* unchanged.
C29_DuplicateMergeKeepsStore ==
    \A i \in 1..Len(log) :
        (log[i].op = "merge_column" /\ ~log[i].ok /\ log[i].err = "DuplicateField") =>
            LET after == IF i = Len(log) THEN ds ELSE log[i + 1].before
            IN  /\ after.fields = log[i].before.fields
                /\ \A ty \in FieldTypes : Bucket(after, ty) = Bucket(log[i].before, ty)

\* the descriptors of a store are consistent among themselves: their names
\* are pairwise distinct, the i-th has index i, and field_map maps each name
\* to its index
DescriptorsAgree(s) ==
    /\ \A i, j \in 1..Len(s.fields) : s.fields[i].name = s.fields[j].name => i = j
    /\ \A i \in 1..Len(s.fields) : s.fields[i].index = i - 1
    /\ DOMAIN s.field_map = { s.fields[i].name : i \in 1..Len(s.fields) }
    /\ \A i \in 1..Len(s.fields) : s.field_map[s.fields[i].name] = s.fields[i].index

\* every descriptor has its column in the bucket of its type
DescriptorsHaveColumns(s) ==
    \A i \in 1..Len(s.fields) : s.fields[i].name \in DOMAIN Bucket(s, s.fields[i].ty)

\* every column has a descriptor of its name and of the type of its bucket
ColumnsHaveDescriptors(s) ==
    \A c \in Columns(s) :
        \E i \in 1..Len(s.fields) : s.fields[i].ty = c[1] /\ s.fields[i].name = c[2]

\* C30: in every store reachable by insert and merge calls the descriptor
\* list and the columns agree: descriptor names are pairwise distinct, the
\* i-th descriptor has index i, field_map maps each descriptor's name to its
\* index, the bucket of each descriptor's type holds a column of its name,
\* and every column of any bucket has a descriptor of that name and of that
\* bucket's type.
C30_DescriptorsAndColumnsAgree ==
    /\ DescriptorsAgree(ds)
    /\ DescriptorsHaveColumns(ds)
    /\ ColumnsHaveDescriptors(ds)

============================================================================
